---- MODULE Spec2Model ----
(***************************************************************************)
(* vicon / avicon: natural-language media-conversion requests turned into  *)
(* validated shell commands.  The model covers the response validator      *)
(* (src/lib/ai.ts), the generation dispatcher, and the conversion flow of   *)
(* both index.ts revisions kept in the repository (the recovery-loop        *)
(* revision in unnamed/part_002 and the earlier one in src/index.ts).       *)
(*                                                                          *)
(* Text is modelled as a sequence of lexical chunks ("tokens"): a space, a  *)
(* newline, a ``` fence, the word json, a word of prose, or the            *)
(* serialisation of one JSON value.  trim, the two fence regexes and        *)
(* JSON.parse are computed on these sequences as the code computes them on  *)
(* characters.                                                              *)
(***************************************************************************)
EXTENDS Integers, Sequences, FiniteSets, TLC

\* ------------------------------------------------------------------------
\* Bounds of the model
\* ------------------------------------------------------------------------
MaxPre == 3
MaxPost == 2
MaxCmds == 2
MaxDispatch == 3
MaxEdits == 1
MaxLines == 2
MaxRun == 3
MaxDetect == 3
MaxGet == 3
MaxInvocations == 2
MaxApiCalls == 4

VARIABLES
    \* --- the program ---------------------------------------------------
    entry,          \* which index.ts revision runs: "part_002" or "index_ts"
    pc,             \* where the process is suspended
    config,         \* the in-memory provider configuration of main
    cached,         \* tools.ts: let cached
    ctx,            \* runConversion: const ctx
    loopRequest,    \* generateUntilSuccess: let userRequest
    userRequest,    \* runConversion: let userRequest
    currentResult,  \* runConversion: let currentResult
    shown,          \* what was last written to the terminal
    offered,        \* the options of the select prompt now open
    cleanupFiles,   \* handleRunAction: preExisting, handed to runCleanup
    exitCode,       \* process.exit status (-1 while running)
    \* --- the world -----------------------------------------------------
    env,            \* the tools installed on the machine right now
    fs,             \* the media files that exist right now
    executed,       \* the command strings spawned so far, in order
    exits,          \* the exit statuses of those that ended, in order
    copied,         \* what was handed to the clipboard
    \* --- observation (history) -----------------------------------------
    dispatchCalls,  \* calls of generate
    backendCalls,   \* backend invocations (HTTP request / agent spawn)
    detectCalls,    \* probes run by detectContext
    lastCall,       \* the (systemPrompt, userPrompt) of the last generate
    firstSys,       \* the system prompt of the first generate
    lastReply,      \* what the backend answered to the last generate
    lastOutcome,    \* what the last generate returned or threw
    lastEvent,      \* the last step of the program or of the operator
    submitted,      \* the request text the operator submitted last
    loopCalls,      \* generate calls of the current generateUntilSuccess
    loopFails,      \* those that failed
    loopChoices,    \* recovery choices the operator made in it
    loopRetries,    \* those that were "retry"
    editCount,      \* command edits so far
    \* --- the invocation ------------------------------------------------
    stored,           \* the configuration getConfig finds (env var / secret store)
    providerOverride, \* the value of --provider, "none" without the flag
    \* --- validator harness ---------------------------------------------
    vstage, vraw, vfenced, vout, voutFenced,
    vbody,          \* the body of the remote response that carries the text
    vremote,        \* the text through the remote path's post-processing
    vlocal,         \* the text through the local-agent path's post-processing
    \* --- runCommands on its own ----------------------------------------
    rpc,            \* where runCommands is: the loop head, the await, returned
    rcommands,      \* its argument
    ri,             \* the loop index (1-based)
    rlive,          \* indices of the spawned processes that have not exited
    rlog,           \* the command strings spawned so far, in order
    rexits,         \* the exit codes seen so far, in order
    rret,           \* the returned boolean ("none" before the return)
    \* --- detectContext on its own --------------------------------------
    ppc,            \* where detectContext is
    pver,           \* per tool, what its -version run gave ("none" before it)
    pffmpeg,        \* probeFfmpeg's result so far
    pmagick,        \* probeMagick's result so far
    ppending,       \* the list runs of probeFfmpeg still outstanding
    pflight,        \* the probe processes spawned and not yet read to the end
    pspawns,        \* how many probe processes were spawned so far
    pcalls,         \* how many times detectContext was called
    pret,           \* what the last completed detectContext call returned
    \* --- the configuration store across invocations ---------------------
    cpc,            \* "shell" between processes, else where the process is
    cinv,           \* how many processes were started
    ccache,         \* config.ts: let _cache, of the running process
    cenv,           \* process.env[CONFIG_KEY] of the running process
    cov,            \* the --provider value of the running process
    csecret,        \* the secret store's entry (it outlives the processes)
    cagent,         \* whether the claude binary is on the PATH right now
    cgets,          \* getConfig calls of the running process
    cenvReads,      \* its reads of the environment variable
    csecretReads,   \* its reads of the secret store
    cret,           \* what its last getConfig returned
    cwrites,        \* setConfig writes to the secret store, all processes
    cspawns,        \* agent processes spawned by generate, all processes
    cout,           \* what the last generate returned or threw
    cexit,          \* the exit status of the last process (-1: none yet)
    cconfig,        \* main: let config, of the running process
    cprev,          \* the --provider value of the process before this one
    cwhich,         \* what `which claude` gave in the running process
    capi,           \* the calls of config.ts made in the running process
    \* --- buildSystemPrompt on its own -----------------------------------
    qpc,            \* "input" before the call, "built" after it
    qrev,           \* the revision of lib/prompt.ts: "current" or "legacy"
    qctx,           \* the capability snapshot handed to it
    qsys            \* the prompt it returned

progVars == <<entry, pc, config, cached, ctx, loopRequest, userRequest,
              currentResult, shown, offered, cleanupFiles, exitCode>>
worldVars == <<env, fs, executed, exits, copied>>
histVars == <<dispatchCalls, backendCalls, detectCalls, lastCall, firstSys,
              lastReply, lastOutcome, lastEvent, submitted, loopCalls, loopFails,
              loopChoices, loopRetries, editCount>>
argVars == <<stored, providerOverride>>
validateVars == <<vstage, vraw, vfenced, vout, voutFenced, vbody, vremote, vlocal>>
runVars == <<rpc, rcommands, ri, rlive, rlog, rexits, rret>>
probeVars == <<ppc, pver, pffmpeg, pmagick, ppending, pflight, pspawns, pcalls, pret>>
configVars == <<cpc, cinv, ccache, cenv, cov, csecret, cagent, cgets, cenvReads,
                csecretReads, cret, cwrites, cspawns, cout, cexit, cconfig, cprev, cwhich, capi>>
promptVars == <<qpc, qrev, qctx, qsys>>
harnessVars == <<validateVars, runVars, probeVars, configVars, promptVars>>
vars == <<progVars, worldVars, histVars, argVars, harnessVars>>

\* ------------------------------------------------------------------------
\* JavaScript / JSON values
\* ------------------------------------------------------------------------
Undefined == [t |-> "undefined"]
JNull == [t |-> "null"]
JTrue == [t |-> "boolean"]
JNum(n) == [t |-> "number", v |-> n]
JStr(s) == [t |-> "string", v |-> s]
JArr(items) == [t |-> "array", v |-> items]
JObj(c, e, x) == [t |-> "object", commands |-> c, explanation |-> e, extra |-> x]

\* ------------------------------------------------------------------------
\* Text tokens
\* ------------------------------------------------------------------------
SP == [k |-> "sp"]
NL == [k |-> "nl"]
FENCE == [k |-> "fence"]
TAG == [k |-> "json"]
PROSE == [k |-> "prose"]
Ser(v) == [k |-> "value", v |-> v]

\* Whitespace classes: what String.prototype.trim removes and what JSON.parse
\* skips.  Of the tokens here both are the space and the newline.
TrimWs == {"sp", "nl"}
JsonWs == {"sp", "nl"}

RECURSIVE dropLeading(_, _)
dropLeading(s, ws) ==
    IF s # <<>> /\ Head(s).k \in ws THEN dropLeading(Tail(s), ws) ELSE s

RECURSIVE dropTrailing(_, _)
dropTrailing(s, ws) ==
    IF s # <<>> /\ s[Len(s)].k \in ws
    THEN dropTrailing(SubSeq(s, 1, Len(s) - 1), ws)
    ELSE s

\* String.prototype.trim
trim(s) == dropTrailing(dropLeading(s, TrimWs), TrimWs)

\* (mutant) the leading regex without its optional json tag: /^```\n?/
stripLeadingFence_noTag(s) ==
    IF s # <<>> /\ Head(s) = FENCE
    THEN LET s1 == Tail(s)
         IN  IF s1 # <<>> /\ Head(s1) = NL THEN Tail(s1) ELSE s1
    ELSE s

\* .replace(/^```(?:json)?\n?/, "")
stripLeadingFence(s) ==
    IF s # <<>> /\ Head(s) = FENCE
    THEN LET s1 == Tail(s)
             s2 == IF s1 # <<>> /\ Head(s1) = TAG THEN Tail(s1) ELSE s1
         IN  IF s2 # <<>> /\ Head(s2) = NL THEN Tail(s2) ELSE s2
    ELSE s

\* .replace(/\n?```$/, "")
stripTrailingFence(s) ==
    IF s # <<>> /\ s[Len(s)] = FENCE
    THEN LET s1 == SubSeq(s, 1, Len(s) - 1)
         IN  IF s1 # <<>> /\ s1[Len(s1)] = NL
             THEN SubSeq(s1, 1, Len(s1) - 1)
             ELSE s1
    ELSE s

clean(raw) == stripTrailingFence(stripLeadingFence(trim(raw)))

\* JSON.parse: optional JSON whitespace, exactly one value, optional JSON
\* whitespace.  Adjacent digit chunks read as one number; anything else that
\* is not a single value is a SyntaxError.
RECURSIVE digitsValue(_)
digitsValue(s) ==
    IF s = <<>> THEN 0 ELSE 10 * digitsValue(SubSeq(s, 1, Len(s) - 1)) + s[Len(s)].v.v

IsDigit(tok) == tok.k = "value" /\ tok.v.t = "number"

JSONparse(s) ==
    LET body == dropTrailing(dropLeading(s, JsonWs), JsonWs)
    IN  IF Len(body) = 1 /\ body[1].k = "value"
        THEN [ok |-> TRUE, value |-> body[1].v]
        ELSE IF Len(body) > 1 /\ \A i \in 1..Len(body) : IsDigit(body[i])
        THEN [ok |-> TRUE, value |-> JNum(digitsValue(body))]
        ELSE [ok |-> FALSE, value |-> Undefined]

\* ------------------------------------------------------------------------
\* validateResponse (src/lib/ai.ts)
\* ------------------------------------------------------------------------
ValidationError(message, raw) ==
    [kind |-> "ValidationError", message |-> message, raw |-> raw]

TypeError == [kind |-> "TypeError"]

\* Property read obj.<name> on a parsed JSON value: a TypeError on null,
\* undefined on every primitive and array, the field on an object.
CanReadProps(v) == v.t \notin {"null", "undefined"}
GetCommands(v) == IF v.t = "object" THEN v.commands ELSE Undefined
GetExplanation(v) == IF v.t = "object" THEN v.explanation ELSE Undefined

\* (mutant) an empty commands array is rejected
IsStringArray_nonEmpty(c) ==
    /\ c.t = "array"
    /\ Len(c.v) > 0
    /\ \A i \in 1..Len(c.v) : c.v[i].t = "string"

\* Array.isArray(obj.commands) && obj.commands.every(typeof c === "string")
IsStringArray(c) ==
    /\ c.t = "array"
    /\ \A i \in 1..Len(c.v) : c.v[i].t = "string"

shapeOk(obj) ==
    /\ IsStringArray(GetCommands(obj))
    /\ GetExplanation(obj).t = "string"

GenerateResult(obj) ==
    [kind |-> "ok",
     commands |-> [i \in 1..Len(obj.commands.v) |-> obj.commands.v[i].v],
     explanation |-> obj.explanation.v]

\* (mutant) the failure carries the cleaned intermediate
failureRaw_cleaned(raw, cleaned) == cleaned

\* the text a ValidationError is constructed with
failureRaw(raw, cleaned) == raw

validateResponse(raw) ==
    LET cleaned == clean(raw)
        parsed == JSONparse(cleaned)
    IN  IF ~parsed.ok
        THEN ValidationError("Invalid JSON response from AI", failureRaw(raw, cleaned))
        ELSE IF ~CanReadProps(parsed.value)
        THEN TypeError
        ELSE IF ~shapeOk(parsed.value)
        THEN ValidationError("Response missing required fields", failureRaw(raw, cleaned))
        ELSE GenerateResult(parsed.value)

\* ------------------------------------------------------------------------
\* Validator harness: validateResponse applied to bounded texts
\* ------------------------------------------------------------------------
SeqsUpTo(S, n) == UNION {[1..m -> S] : m \in 0..n}

ObjValid == JObj(JArr(<<JStr("c1"), JStr("c2")>>), JStr("e1"), FALSE)
ObjEmpty == JObj(JArr(<<>>), JStr("cannot be done"), FALSE)
ObjNoCommands == JObj(Undefined, JStr("e1"), FALSE)

\* Texts that exercise the stripping: any short run of whitespace, fences and
\* json tags around one of a few payloads.
StripPayloads == {<<Ser(ObjValid)>>, <<Ser(ObjNoCommands)>>, <<PROSE>>, <<>>}
StripTexts ==
    {pre \o p \o post : pre \in SeqsUpTo({SP, NL, FENCE, TAG}, MaxPre),
                        p \in StripPayloads,
                        post \in SeqsUpTo({SP, NL, FENCE}, MaxPost)}

\* Texts that exercise the shape check: every small JSON value inside a few
\* wrappings.  An absent field of an object is Undefined.
CmdElems == {JStr("c1"), JNum(5)}
Arrays == {JArr(items) : items \in SeqsUpTo(CmdElems, MaxCmds)}
CmdVals == Arrays \cup {Undefined, JNull, JStr("c1")}
ExplVals == {Undefined, JStr("e1"), JNum(5), JNull}
Objects == {JObj(c, e, x) : c \in CmdVals, e \in ExplVals, x \in BOOLEAN}
TopValues == Objects \cup Arrays \cup {JNull, JNum(5), JStr("c1"), JTrue}
ShapeTexts ==
    {pre \o <<Ser(v)>> \o post : pre \in {<<>>, <<SP>>, <<FENCE, TAG, NL>>},
                                 v \in TopValues,
                                 post \in {<<>>, <<NL, FENCE>>}}

Texts == StripTexts \cup ShapeTexts

\* fenced(text): the text inside the optional leading / trailing markers.
Fenced(text) ==
    {lead \o text \o trail :
        lead \in {<<>>, <<FENCE>>, <<FENCE, TAG>>, <<FENCE, NL>>, <<FENCE, TAG, NL>>},
        trail \in {<<>>, <<FENCE>>, <<NL, FENCE>>}}

NoOutcome == [kind |-> "none"]

ValidateInput ==
    /\ vstage = "input"
    /\ vout' = validateResponse(vraw)
    /\ vstage' = "validated"
    /\ UNCHANGED <<vraw, vfenced, voutFenced, vbody, vremote, vlocal>>
    /\ UNCHANGED <<progVars, worldVars, histVars, argVars, runVars, probeVars, configVars, promptVars>>

ValidateFenced ==
    /\ vstage = "validated"
    /\ JSONparse(vraw).ok
    /\ \E f \in Fenced(vraw) :
          /\ vfenced' = f
          /\ voutFenced' = validateResponse(f)
    /\ vstage' = "fenced"
    /\ UNCHANGED <<vraw, vout, vbody, vremote, vlocal>>
    /\ UNCHANGED <<progVars, worldVars, histVars, argVars, runVars, probeVars, configVars, promptVars>>

\* ------------------------------------------------------------------------
\* Configuration, capability snapshot, prompts
\* ------------------------------------------------------------------------
ConfigNull == [defaultProvider |-> "null", cloudflare |-> FALSE]
StoredConfigs ==
    {ConfigNull,
     [defaultProvider |-> "cloudflare", cloudflare |-> TRUE],
     [defaultProvider |-> "claude", cloudflare |-> FALSE]}
Overrides == {"none", "cloudflare", "claude"}

\* (mutant) the override builds the configuration anew
applyOverride_fresh(loaded, ov) ==
    IF ov = "none" THEN loaded ELSE [defaultProvider |-> ov, cloudflare |-> FALSE]

\* main: the --provider override replaces the provider selection only
applyOverride(loaded, ov) ==
    IF ov = "none" THEN loaded
    ELSE IF loaded # ConfigNull THEN [loaded EXCEPT !.defaultProvider = ov]
    ELSE [defaultProvider |-> ov, cloudflare |-> FALSE]

Tools == {"ffmpeg", "magick"}

\* ------------------------------------------------------------------------
\* The capability prober (lib/tools.ts, the revision of unnamed/part_005)
\* ------------------------------------------------------------------------
\* The output of a probe process is a sequence of lines: a blank line, the
\* version banner the version regexp matches (first line of a -version run),
\* the "Bitstream filters:" header, a line the list regexp of the run matches,
\* or any other line.
Blank == [k |-> "blank", name |-> ""]
Banner == [k |-> "banner", name |-> "v1"]
Header == [k |-> "header", name |-> "Bitstream filters:"]
Entry == [k |-> "entry", name |-> "n1"]
Junk == [k |-> "junk", name |-> "junk"]
LineKinds == {Blank, Header, Entry, Junk}

\* What one run(cmd) meets: Bun.spawn throws (no such binary), reading the
\* output rejects, or the process writes a text.
RunFailures == {"spawn-throws", "read-rejects"}
Failure(k) == [k |-> k, text |-> <<>>]
Output(text) == [k |-> "output", text |-> text]
VersionOutcomes ==
    {Failure(k) : k \in RunFailures}
        \cup {Output(t) : t \in {<<>>, <<Blank>>, <<Banner>>, <<Junk>>}}
ListOutcomes ==
    {Failure(k) : k \in RunFailures}
        \cup {Output(t) : t \in UNION {[1..m -> LineKinds] : m \in 0..MaxLines}}

\* the text .trim() of a whole output: the blank lines at both ends go
trimLines(text) == dropTrailing(dropLeading(text, {"blank"}), {"blank"})

\* (mutant) run without its try / catch: the exception reaches the caller
run_noCatch(o) ==
    IF o.k \in RunFailures
    THEN [raised |-> TRUE, out |-> <<>>]
    ELSE [raised |-> FALSE, out |-> trimLines(o.text)]

\* run(cmd): the trimmed output, the empty string when anything throws
run(o) ==
    IF o.k \in RunFailures
    THEN [raised |-> FALSE, out |-> <<>>]
    ELSE [raised |-> FALSE, out |-> trimLines(o.text)]

\* versionOut.split("\n")[0]?.match(...)?.[1]
versionOf(out) == IF out[1].k = "banner" THEN out[1].name ELSE "undefined"

IsEntry(line) == line.k = "entry"
IsNotBlank(line) == line.k # "blank"
names(lines) == [i \in 1..Len(lines) |-> lines[i].name]

\* .split("\n").filter(regexp).map(name).filter(Boolean)
listed(out) == names(SelectSeq(out, IsEntry))

\* the lines after the "Bitstream filters:" header, trimmed, non-empty
headerAt(out) ==
    IF \E i \in 1..Len(out) : out[i].k = "header"
    THEN CHOOSE i \in 1..Len(out) :
            /\ out[i].k = "header"
            /\ \A j \in 1..(i - 1) : out[j].k # "header"
    ELSE -1
bitstream(out) ==
    IF headerAt(out) >= 0
    THEN names(SelectSeq(SubSeq(out, headerAt(out) + 1, Len(out)), IsNotBlank))
    ELSE <<>>

FfmpegLists == {"codecs", "filters", "bitstreamFilters", "formats"}
parseList(l, out) == IF l = "bitstreamFilters" THEN bitstream(out) ELSE listed(out)

\* probeFfmpeg / probeMagick: the early return on an empty version output
ffmpegMissing ==
    [installed |-> FALSE, version |-> "undefined", codecs |-> <<>>,
     filters |-> <<>>, bitstreamFilters |-> <<>>, formats |-> <<>>]
magickMissing == [installed |-> FALSE, version |-> "undefined", formats |-> <<>>]

\* probeFfmpeg given what each of its five runs meets
probeFfmpeg(o) ==
    LET versionOut == run(o.version).out
    IN  IF versionOut = <<>>
        THEN ffmpegMissing
        ELSE [installed |-> TRUE,
              version |-> versionOf(versionOut),
              codecs |-> parseList("codecs", run(o.codecs).out),
              filters |-> parseList("filters", run(o.filters).out),
              bitstreamFilters |-> parseList("bitstreamFilters", run(o.bitstreamFilters).out),
              formats |-> parseList("formats", run(o.formats).out)]

probeMagick(o) ==
    LET versionOut == run(o.version).out
    IN  IF versionOut = <<>>
        THEN magickMissing
        ELSE [installed |-> TRUE,
              version |-> versionOf(versionOut),
              formats |-> listed(run(o.formats).out)]

\* what the runs of a tool meet on a machine where the tools of e are installed
outcomesOn(tool, e) ==
    IF tool \in e
    THEN [version |-> Output(<<Banner>>), codecs |-> Output(<<Junk, Entry>>),
          filters |-> Output(<<Entry>>), bitstreamFilters |-> Output(<<Header, Entry>>),
          formats |-> Output(<<Junk, Entry>>)]
    ELSE [version |-> Failure("spawn-throws"), codecs |-> Failure("spawn-throws"),
          filters |-> Failure("spawn-throws"),
          bitstreamFilters |-> Failure("spawn-throws"),
          formats |-> Failure("spawn-throws")]

\* (mutant) a snapshot without a tool found is not taken for a cache entry
cacheHit_foundOnly(c) ==
    c # Undefined /\ (c.ffmpeg.installed \/ c.magick.installed)

\* if (cached)
cacheHit(c) == c # Undefined

\* (mutant) the cache takes the transcoder entry alone
snapshotOf_ffmpegOnly(ffmpeg, magick) == [ffmpeg |-> ffmpeg]

\* cached = { ffmpeg, magick }
snapshotOf(ffmpeg, magick) == [ffmpeg |-> ffmpeg, magick |-> magick]

\* detectContext with an empty cache: both probes, then the snapshot
probe(e) ==
    snapshotOf(probeFfmpeg(outcomesOn("ffmpeg", e)),
               probeMagick(outcomesOn("magick", e)))

\* A prompt is its sequence of lines; a line is its fixed text and the values
\* interpolated into it (joined by ", " in the source).
Line(text, items) == [line |-> text, items |-> items]

\* ctx.<tool>.version ?? "unknown"
orUnknown(version) == IF version = "undefined" THEN "unknown" ELSE version

\* list.join(", ") || "none"
orNone(list) == IF list = <<>> THEN <<"none">> ELSE list

\* (mutant) a missing tool is reported without the instruction
notInstalled_bare(tool) ==
    IF tool = "ffmpeg"
    THEN Line("FFmpeg: not installed", <<>>)
    ELSE Line("magick: not installed", <<>>)

\* the line pushed for a tool that is not installed
notInstalled(tool) ==
    IF tool = "ffmpeg"
    THEN Line("FFmpeg: NOT installed - do not generate ffmpeg commands", <<>>)
    ELSE Line("magick: NOT installed - do not generate magick commands", <<>>)

environment(c) ==
    <<Line("## Available Tools", <<>>)>>
    \o (IF c.ffmpeg.installed
        THEN <<Line("FFmpeg", <<orUnknown(c.ffmpeg.version)>>),
               Line("  Codecs", orNone(c.ffmpeg.codecs)),
               Line("  Filters", orNone(c.ffmpeg.filters)),
               Line("  Bitstream filters", orNone(c.ffmpeg.bitstreamFilters)),
               Line("  Formats", orNone(c.ffmpeg.formats))>>
        ELSE <<notInstalled("ffmpeg")>>)
    \o (IF c.magick.installed
        THEN <<Line("magick", <<orUnknown(c.magick.version)>>),
               Line("  Formats", orNone(c.magick.formats))>>
        ELSE <<notInstalled("magick")>>)

rules ==
    <<Line("## Rules", <<>>),
      Line("Return ONLY valid JSON in this exact shape", <<>>),
      Line("- explanation: plain prose only", <<>>),
      Line("- commands: complete, copy-pasteable shell strings", <<>>),
      Line("- BEFORE generating any command: choose the optimal codec", <<>>),
      Line("- NEVER rely on FFmpeg auto-selection", <<>>),
      Line("- If a required FFmpeg encoder is not available, use magick", <<>>),
      Line("- If neither tool can handle the task, return no commands", <<>>),
      Line("- Prefer non-destructive output", <<>>),
      Line("- For batch tasks, emit one command per file", <<>>),
      Line("IMPORTANT: Reply with ONLY the JSON object", <<>>)>>

\* [a, b].join("\n\n"): one empty line between the two sections
joinSections(a, b) == a \o <<Line("", <<>>)>> \o b

\* (mutant) the sections are joined the other way round
buildSystemPrompt_rulesFirst(c) == joinSections(rules, environment(c))

buildSystemPrompt(c) == joinSections(environment(c), rules)

\* the older revision of lib/prompt.ts, over the snapshot of its time
\* (ffmpeg: installed, version, encoders, decoders)
legacyEnvironment(c) ==
    <<Line("## Environment", <<>>)>>
    \o (IF c.ffmpeg.installed
        THEN <<Line("ffmpeg", <<orUnknown(c.ffmpeg.version)>>),
               Line("| encoders", c.ffmpeg.encoders),
               Line("| decoders", c.ffmpeg.decoders)>>
        ELSE <<Line("ffmpeg: not installed", <<>>)>>)
    \o (IF c.magick.installed
        THEN <<Line("magick", <<orUnknown(c.magick.version)>>),
               Line("| formats", c.magick.formats)>>
        ELSE <<Line("magick: not installed", <<>>)>>)

legacyRules ==
    <<Line("## Rules", <<>>),
      Line("Return ONLY valid JSON in this exact shape", <<>>),
      Line("- explanation: plain prose only", <<>>),
      Line("- commands: complete, copy-pasteable shell strings", <<>>),
      Line("- Only use tools that are listed as installed above", <<>>),
      Line("- Prefer non-destructive output", <<>>),
      Line("- For batch tasks, emit one command per file", <<>>),
      Line("IMPORTANT: Reply with ONLY the JSON object", <<>>)>>

legacyBuildSystemPrompt(c) == joinSections(legacyEnvironment(c), legacyRules)

buildUserPrompt(request) == request

\* ------------------------------------------------------------------------
\* The dispatcher (src/lib/ai.ts)
\* ------------------------------------------------------------------------
\* What a backend can answer to one invocation: a failure (non-2xx status,
\* agent cannot be spawned) or a reply text.
TextValid == <<FENCE, TAG, NL, Ser(ObjValid), NL, FENCE>>
TextEmpty == <<Ser(ObjEmpty)>>
TextProse == <<PROSE, NL>>
TextNull == <<Ser(JNull)>>
FlowTexts == {TextValid, TextEmpty, TextProse, TextNull}
BackendReplies ==
    {[k |-> "fail", text |-> <<>>]} \cup {[k |-> "text", text |-> t] : t \in FlowTexts}

NoReply == [k |-> "none", text |-> <<>>]

Error(message) == [kind |-> "Error", message |-> message]

\* The body of a successful remote response: { choices?: { message?:
\* { content?: string } }[] }
Message(content) == [t |-> "message", content |-> content]
Choice(message) == [t |-> "choice", message |-> message]
Body(choices) == [t |-> "body", choices |-> choices]

\* the body that carries a reply text
remoteBody(text) == Body(JArr(<<Choice(Message(JStr(text)))>>))

\* the bodies that carry none: no choices, an empty choices array, a choice
\* without message, a message without content, a null content
TextlessBodies ==
    {Body(Undefined), Body(JArr(<<>>)), Body(JArr(<<Choice(Undefined)>>)),
     Body(JArr(<<Choice(Message(Undefined))>>)), Body(JArr(<<Choice(Message(JNull))>>))}

\* (mutant) a body without reply text counts as an empty result
replyContent_emptyResult(body) ==
    IF body \in TextlessBodies THEN <<Ser(ObjEmpty)>> ELSE body.choices.v[1].message.content.v

\* data.choices?.[0]?.message?.content ?? ""
replyContent(body) ==
    LET choices == body.choices
        first == IF choices.t = "array" /\ Len(choices.v) > 0 THEN choices.v[1] ELSE Undefined
        message == IF first.t = "undefined" THEN Undefined ELSE first.message
        content == IF message.t = "undefined" THEN Undefined ELSE message.content
    IN  IF content.t \in {"undefined", "null"} THEN <<>> ELSE content.v

\* generateWithCloudflare once response.ok held: the text out of the body,
\* then validateResponse
remoteReply(body) == validateResponse(replyContent(body))

\* (mutant) the status is not looked at: the error body goes to the validator
generateWithCloudflare_ignoreStatus(reply) == validateResponse(reply.text)

\* generateWithCloudflare: !response.ok throws; else the reply text (the empty
\* string when the body holds none) goes to validateResponse
generateWithCloudflare(reply) ==
    IF reply.k = "fail"
    THEN Error("Cloudflare API error")
    ELSE remoteReply(remoteBody(reply.text))

\* (mutant) the local path accepts only bare JSON from the agent
generateWithClaude_bareJson(reply) ==
    IF reply.k = "fail"
    THEN Error("spawn failed")
    ELSE IF JSONparse(trim(reply.text)).ok
    THEN validateResponse(trim(reply.text))
    ELSE ValidationError("Invalid JSON response from AI", trim(reply.text))

\* generateWithClaude: the agent's stdout, trimmed, goes to validateResponse
generateWithClaude(reply) ==
    IF reply.k = "fail"
    THEN Error("spawn failed")
    ELSE validateResponse(trim(reply.text))

\* backend invocations one call of generate makes
backendInvocations(cfg) ==
    IF cfg.defaultProvider = "cloudflare" /\ ~cfg.cloudflare THEN 0 ELSE 1

\* (mutant) a reply that fails validation is passed on as an empty result
generate_coerced(cfg, reply) ==
    LET r == IF cfg.defaultProvider = "cloudflare"
             THEN generateWithCloudflare(reply)
             ELSE generateWithClaude(reply)
    IN  IF r.kind = "ValidationError"
        THEN [kind |-> "ok", commands |-> <<>>, explanation |-> ""]
        ELSE r

\* generate: the provider switch
generate(cfg, reply) ==
    IF cfg.defaultProvider = "cloudflare"
    THEN IF ~cfg.cloudflare
         THEN Error("Cloudflare credentials not configured")
         ELSE generateWithCloudflare(reply)
    ELSE generateWithClaude(reply)

\* the same reply text through the post-processing of both backends
PostProcess ==
    /\ vstage = "input"
    /\ vremote' = remoteReply(vbody)
    /\ vlocal' = generateWithClaude([k |-> "text", text |-> vraw])
    /\ vstage' = "dispatched"
    /\ UNCHANGED <<vraw, vfenced, vout, voutFenced, vbody>>
    /\ UNCHANGED <<progVars, worldVars, histVars, argVars, runVars, probeVars, configVars, promptVars>>

\* ------------------------------------------------------------------------
\* The conversion flow (index.ts)
\* ------------------------------------------------------------------------
InitialRequest == "r0"
ReqTexts == {"r0", "r1"}
NoResult == [kind |-> "none"]
NoCall == [sys |-> <<>>, user |-> ""]
Nothing == [kind |-> "nothing"]

\* (mutant) a fourth continuation that accepts the failed attempt
RecoveryOptions_useAnyway == {"retry", "edit-prompt", "cancel", "use-anyway"}

RecoveryOptions == {"retry", "edit-prompt", "cancel"}
MenuOptions == {"run", "edit", "retry", "edit-prompt", "copy", "cancel"}
LegacyMenuOptions == {"run", "edit", "copy", "cancel"}

\* (mutant) only the explanation panel is rendered
Panels_explanationOnly(result) ==
    [kind |-> "panels", commands |-> <<>>, explanation |-> result.explanation]

\* renderPanels: the explanation panel and the commands panel
Panels(result) ==
    [kind |-> "panels", commands |-> result.commands, explanation |-> result.explanation]

Exit(code) ==
    /\ pc' = "exited"
    /\ exitCode' = code
    /\ offered' = {}

\* (mutant) main checks only the credentials
configError_noProviderCheck(cfg) ==
    IF cfg.defaultProvider = "cloudflare" /\ ~cfg.cloudflare
    THEN "Cloudflare credentials missing"
    ELSE "none"

\* (mutant) main checks only that a provider is selected
configError_noCredentialCheck(cfg) ==
    IF cfg = ConfigNull THEN "No provider configured" ELSE "none"

\* main: the two checks made on the configuration before anything else runs
configError(cfg) ==
    IF cfg = ConfigNull
    THEN "No provider configured"
    ELSE IF cfg.defaultProvider = "cloudflare" /\ ~cfg.cloudflare
    THEN "Cloudflare credentials missing"
    ELSE "none"

\* main, conversion path: load the configuration, apply --provider, check it
Main ==
    /\ pc = "main"
    /\ \E hasRequest \in BOOLEAN :
          LET cfg == applyOverride(stored, providerOverride)
          IN  /\ config' = cfg
              /\ IF configError(cfg) # "none"
                 THEN /\ shown' = [kind |-> "error", message |-> configError(cfg)]
                      /\ Exit(1)
                 ELSE IF ~hasRequest
                 THEN /\ shown' = [kind |-> "usage"]
                      /\ Exit(0)
                 ELSE /\ pc' = "detect"
                      /\ UNCHANGED <<shown, exitCode, offered>>
    /\ lastEvent' = "main"
    /\ UNCHANGED <<entry, cached, ctx, loopRequest, userRequest, currentResult,
                   cleanupFiles>>
    /\ UNCHANGED worldVars
    /\ UNCHANGED <<dispatchCalls, backendCalls, detectCalls, lastCall, firstSys,
                   lastReply, lastOutcome, submitted, loopCalls, loopFails,
                   loopChoices, loopRetries, editCount>>
    /\ UNCHANGED <<argVars, harnessVars>>

\* (mutant) one missing tool is enough to give up
noTools_either(snapshot) == ~snapshot.ffmpeg.installed \/ ~snapshot.magick.installed

\* runConversion: !ctx.ffmpeg.installed && !ctx.magick.installed
noTools(snapshot) == ~snapshot.ffmpeg.installed /\ ~snapshot.magick.installed

\* runConversion up to the first generateUntilSuccess: detectContext (with its
\* module cache), the tool summary, the no-tools exit of part_002
Detect ==
    /\ pc = "detect"
    /\ LET snapshot == IF cacheHit(cached) THEN cached ELSE probe(env)
       IN  /\ cached' = snapshot
           /\ ctx' = snapshot
           /\ detectCalls' = IF cacheHit(cached) THEN detectCalls ELSE detectCalls + 1
           /\ IF entry = "part_002" /\ noTools(snapshot)
              THEN /\ shown' = [kind |-> "error", message |-> "No media tools found"]
                   /\ Exit(1)
                   /\ UNCHANGED loopRequest
              ELSE /\ pc' = "generating"
                   /\ loopRequest' = InitialRequest
                   /\ UNCHANGED <<shown, exitCode, offered>>
    /\ lastEvent' = "detect"
    /\ UNCHANGED <<entry, config, userRequest, currentResult, cleanupFiles>>
    /\ UNCHANGED worldVars
    /\ UNCHANGED <<dispatchCalls, backendCalls, lastCall, firstSys, lastReply, lastOutcome,
                   submitted, loopCalls, loopFails, loopChoices, loopRetries, editCount>>
    /\ UNCHANGED <<argVars, harnessVars>>

\* (mutant) the capabilities are probed again for every attempt
tryGenerateSystemPrompt_reprobe == buildSystemPrompt(probe(env))

\* the system prompt tryGenerate hands to generate
tryGenerateSystemPrompt == buildSystemPrompt(ctx)

\* err.message of an error that is not a ValidationError (for the TypeError
\* of a property read on null, the engine's wording)
errorMessage(outcome) ==
    IF outcome.kind = "Error" THEN outcome.message ELSE "TypeError"

\* what tryGenerate prints in its catch block
failureDisplay(outcome) ==
    IF outcome.kind = "ValidationError"
    THEN [kind |-> "raw", text |-> outcome.raw]
    ELSE [kind |-> "message", text |-> errorMessage(outcome)]

\* (mutant) only a ValidationError is caught: any other error ends the process
tryGenerateFailed_rethrow(outcome) ==
    /\ shown' = failureDisplay(outcome)
    /\ pc' = IF outcome.kind = "ValidationError" THEN "failed" ELSE "exited"
    /\ offered' = IF outcome.kind = "ValidationError" THEN RecoveryOptions ELSE {}

\* (mutant) a failed attempt is resubmitted at once, without asking
tryGenerateFailed_autoRetry(outcome) ==
    /\ shown' = failureDisplay(outcome)
    /\ pc' = "generating"
    /\ offered' = {}

\* (mutant) after a second failure only cancel is left
tryGenerateFailed_maxRetries(outcome) ==
    /\ shown' = failureDisplay(outcome)
    /\ pc' = "failed"
    /\ offered' = IF loopFails >= 1 THEN {"cancel"} ELSE RecoveryOptions

\* tryGenerate returned null: generateUntilSuccess opens the recovery prompt
tryGenerateFailed(outcome) ==
    /\ shown' = failureDisplay(outcome)
    /\ pc' = "failed"
    /\ offered' = RecoveryOptions

\* the bookkeeping of one call of generate, shared by both revisions
Dispatch(reply, outcome) ==
    /\ outcome = generate(config, reply)
    /\ dispatchCalls' = dispatchCalls + 1
    /\ backendCalls' = backendCalls + backendInvocations(config)
    /\ lastCall' = [sys |-> tryGenerateSystemPrompt, user |-> buildUserPrompt(loopRequest)]
    /\ firstSys' = IF dispatchCalls = 0 THEN tryGenerateSystemPrompt ELSE firstSys
    /\ lastReply' = reply
    /\ lastOutcome' = outcome
    /\ lastEvent' = "dispatch"
    /\ loopCalls' = loopCalls + 1
    /\ loopFails' = IF outcome.kind = "ok" THEN loopFails ELSE loopFails + 1

\* part_002: one turn of generateUntilSuccess: tryGenerate, then either the
\* return to runConversion (renderPanels, action menu) or the recovery prompt
TryGenerate ==
    /\ entry = "part_002"
    /\ pc = "generating"
    /\ dispatchCalls < MaxDispatch
    /\ \E reply \in BackendReplies :
          LET outcome == generate(config, reply)
          IN  /\ Dispatch(reply, outcome)
              /\ IF outcome.kind = "ok"
                 THEN /\ currentResult' = outcome
                      /\ userRequest' = loopRequest
                      /\ shown' = Panels(outcome)
                      /\ pc' = "menu"
                      /\ offered' = MenuOptions
                 ELSE /\ tryGenerateFailed(outcome)
                      /\ UNCHANGED <<currentResult, userRequest>>
    /\ UNCHANGED <<entry, config, cached, ctx, loopRequest, cleanupFiles, exitCode>>
    /\ UNCHANGED worldVars
    /\ UNCHANGED <<detectCalls, submitted, loopChoices, loopRetries, editCount>>
    /\ UNCHANGED <<argVars, harnessVars>>

\* src/index.ts: runConversion step 3: one generate; any error ends the process
LegacyGenerate ==
    /\ entry = "index_ts"
    /\ pc = "generating"
    /\ dispatchCalls < MaxDispatch
    /\ \E reply \in BackendReplies :
          LET outcome == generate(config, reply)
          IN  /\ Dispatch(reply, outcome)
              /\ IF outcome.kind = "ok"
                 THEN /\ currentResult' = outcome
                      /\ shown' = Panels(outcome)
                      /\ pc' = "menu"
                      /\ offered' = LegacyMenuOptions
                      /\ UNCHANGED exitCode
                 ELSE /\ shown' = failureDisplay(outcome)
                      /\ Exit(1)
                      /\ UNCHANGED currentResult
    /\ UNCHANGED <<entry, config, cached, ctx, loopRequest, userRequest, cleanupFiles>>
    /\ UNCHANGED worldVars
    /\ UNCHANGED <<detectCalls, submitted, loopChoices, loopRetries, editCount>>
    /\ UNCHANGED <<argVars, harnessVars>>

\* ------------------------------------------------------------------------
\* The recovery prompt (part_002: promptErrorRecovery, generateUntilSuccess)
\* ------------------------------------------------------------------------
Null == [k |-> "null", text |-> ""]
AskText == [k |-> "ask", text |-> ""]
Request(text) == [k |-> "request", text |-> text]

\* (mutant) retry resubmits the request the process was started with
selectResult_retryInitial(choice, currentRequest) ==
    IF choice \in {"abort", "cancel"} THEN Null
    ELSE IF choice # "edit-prompt" THEN Request(InitialRequest)
    ELSE AskText

\* (mutant) cancel is taken for retry
selectResult_cancelRetries(choice, currentRequest) ==
    IF choice = "abort" THEN Null
    ELSE IF choice # "edit-prompt" THEN Request(currentRequest)
    ELSE AskText

\* promptErrorRecovery after its select: null on cancel or an aborted prompt,
\* the unchanged request on retry, otherwise on to the text prompt
selectResult(choice, currentRequest) ==
    IF choice \in {"abort", "cancel"} THEN Null
    ELSE IF choice # "edit-prompt" THEN Request(currentRequest)
    ELSE AskText

\* (mutant) an aborted text prompt resubmits the first request
textResult_abortResubmits(input) ==
    IF input = "abort" THEN Request(InitialRequest) ELSE Request(input)

\* promptErrorRecovery after its text prompt
textResult(input) ==
    IF input = "abort" THEN Null ELSE Request(input)

\* (mutant) cancel gives up this generation only and keeps an earlier result
loopCancelled_scoped ==
    /\ IF currentResult # NoResult
       THEN /\ pc' = "menu"
            /\ offered' = MenuOptions
            /\ UNCHANGED exitCode
       ELSE Exit(0)
    /\ UNCHANGED loopRequest

\* generateUntilSuccess: next === null: p.outro("Cancelled."); process.exit(0)
loopCancelled ==
    /\ Exit(0)
    /\ UNCHANGED loopRequest

\* generateUntilSuccess: userRequest = next; and round the loop again
loopContinue(next) ==
    /\ loopRequest' = next.text
    /\ pc' = "generating"
    /\ offered' = {}
    /\ UNCHANGED exitCode

RecoveryChoose ==
    /\ pc = "failed"
    /\ \E choice \in offered \cup {"abort"} :
          LET next == selectResult(choice, loopRequest)
          IN  /\ loopChoices' = loopChoices + 1
              /\ loopRetries' = IF choice = "retry" THEN loopRetries + 1 ELSE loopRetries
              /\ lastEvent' = choice
              /\ IF next = Null THEN loopCancelled
                 ELSE IF next = AskText
                 THEN /\ pc' = "recoveryEdit"
                      /\ offered' = {}
                      /\ UNCHANGED <<loopRequest, exitCode>>
                 ELSE loopContinue(next)
    /\ UNCHANGED <<entry, config, cached, ctx, userRequest, currentResult, shown,
                   cleanupFiles>>
    /\ UNCHANGED worldVars
    /\ UNCHANGED <<dispatchCalls, backendCalls, detectCalls, lastCall, firstSys,
                   lastReply, lastOutcome, submitted, loopCalls, loopFails, editCount>>
    /\ UNCHANGED <<argVars, harnessVars>>

RecoveryEditSubmit ==
    /\ pc = "recoveryEdit"
    /\ \E input \in ReqTexts \cup {"abort"} :
          LET next == textResult(input)
          IN  /\ lastEvent' = IF input = "abort" THEN "abort" ELSE "edit-submit"
              /\ submitted' = IF input = "abort" THEN submitted ELSE input
              /\ IF next = Null THEN loopCancelled ELSE loopContinue(next)
    /\ UNCHANGED <<entry, config, cached, ctx, userRequest, currentResult, shown,
                   cleanupFiles>>
    /\ UNCHANGED worldVars
    /\ UNCHANGED <<dispatchCalls, backendCalls, detectCalls, lastCall, firstSys,
                   lastReply, lastOutcome, loopCalls, loopFails, loopChoices, loopRetries, editCount>>
    /\ UNCHANGED <<argVars, harnessVars>>

\* ------------------------------------------------------------------------
\* The action menu (runConversion's while loop, both revisions)
\* ------------------------------------------------------------------------
\* a fresh invocation of generateUntilSuccess(request, ctx, config)
generateUntilSuccess(request) ==
    /\ loopRequest' = request
    /\ loopCalls' = 0
    /\ loopFails' = 0
    /\ loopChoices' = 0
    /\ loopRetries' = 0
    /\ pc' = "generating"
    /\ offered' = {}

MenuCancel ==
    /\ pc = "menu"
    /\ \E choice \in {"cancel", "abort"} : lastEvent' = choice
    /\ Exit(0)
    /\ UNCHANGED <<entry, config, cached, ctx, loopRequest, userRequest,
                   currentResult, shown, cleanupFiles>>
    /\ UNCHANGED worldVars
    /\ UNCHANGED <<dispatchCalls, backendCalls, detectCalls, lastCall, firstSys,
                   lastReply, lastOutcome, submitted, loopCalls, loopFails,
                   loopChoices, loopRetries, editCount>>
    /\ UNCHANGED <<argVars, harnessVars>>

MenuRetry ==
    /\ pc = "menu"
    /\ "retry" \in offered
    /\ lastEvent' = "retry"
    /\ generateUntilSuccess(userRequest)
    /\ UNCHANGED <<entry, config, cached, ctx, userRequest, currentResult, shown,
                   cleanupFiles, exitCode>>
    /\ UNCHANGED worldVars
    /\ UNCHANGED <<dispatchCalls, backendCalls, detectCalls, lastCall, firstSys,
                   lastReply, lastOutcome, submitted, editCount>>
    /\ UNCHANGED <<argVars, harnessVars>>

MenuEditPrompt ==
    /\ pc = "menu"
    /\ "edit-prompt" \in offered
    /\ lastEvent' = "edit-prompt"
    /\ pc' = "menuEditPrompt"
    /\ offered' = {}
    /\ UNCHANGED <<entry, config, cached, ctx, loopRequest, userRequest,
                   currentResult, shown, cleanupFiles, exitCode>>
    /\ UNCHANGED worldVars
    /\ UNCHANGED <<dispatchCalls, backendCalls, detectCalls, lastCall, firstSys,
                   lastReply, lastOutcome, submitted, loopCalls, loopFails,
                   loopChoices, loopRetries, editCount>>
    /\ UNCHANGED <<argVars, harnessVars>>

\* handleEditPromptAction after its text prompt
EditPromptSubmit ==
    /\ pc = "menuEditPrompt"
    /\ \E input \in ReqTexts \cup {"abort"} :
          IF input = "abort"
          THEN /\ lastEvent' = "abort"
               /\ Exit(0)
               /\ UNCHANGED <<submitted, loopRequest, loopCalls, loopFails,
                              loopChoices, loopRetries>>
          ELSE /\ lastEvent' = "edit-submit"
               /\ submitted' = input
               /\ generateUntilSuccess(input)
               /\ UNCHANGED exitCode
    /\ UNCHANGED <<entry, config, cached, ctx, userRequest, currentResult, shown,
                   cleanupFiles>>
    /\ UNCHANGED worldVars
    /\ UNCHANGED <<dispatchCalls, backendCalls, detectCalls, lastCall, firstSys,
                   lastReply, lastOutcome, editCount>>
    /\ UNCHANGED <<argVars, harnessVars>>

\* (mutant) Run all and Copy take the commands as they were generated
menuCommands_generated == lastOutcome.commands

\* the argument of handleRunAction and handleCopyAction: currentResult.commands
menuCommands == currentResult.commands

\* handleCopyAction / the copy branch of src/index.ts
MenuCopy ==
    /\ pc = "menu"
    /\ "copy" \in offered
    /\ lastEvent' = "copy"
    /\ copied' = menuCommands
    /\ Exit(0)
    /\ UNCHANGED <<entry, config, cached, ctx, loopRequest, userRequest,
                   currentResult, shown, cleanupFiles>>
    /\ UNCHANGED <<env, fs, executed, exits>>
    /\ UNCHANGED <<dispatchCalls, backendCalls, detectCalls, lastCall, firstSys,
                   lastReply, lastOutcome, submitted, loopCalls, loopFails,
                   loopChoices, loopRetries, editCount>>
    /\ UNCHANGED <<argVars, harnessVars>>

MenuEditCommands ==
    /\ pc = "menu"
    /\ "edit" \in offered
    /\ editCount < MaxEdits
    /\ lastEvent' = "edit"
    /\ pc' = "menuEditCommands"
    /\ offered' = {}
    /\ UNCHANGED <<entry, config, cached, ctx, loopRequest, userRequest,
                   currentResult, shown, cleanupFiles, exitCode>>
    /\ UNCHANGED worldVars
    /\ UNCHANGED <<dispatchCalls, backendCalls, detectCalls, lastCall, firstSys,
                   lastReply, lastOutcome, submitted, loopCalls, loopFails,
                   loopChoices, loopRetries, editCount>>
    /\ UNCHANGED <<argVars, harnessVars>>

\* The edited text, one record per line: its text without the surrounding
\* blanks, and whether blanks surround it.
EditLines ==
    {[padded |-> FALSE, text |-> ""], [padded |-> TRUE, text |-> ""],
     [padded |-> TRUE, text |-> "c3"]}
EditedTexts == SeqsUpTo(EditLines, 2)

lineTrim(l) == l.text
IsNonEmpty(text) == text # ""

\* (mutant) the blank lines are kept: no .filter(Boolean)
newCommands_keepBlank(edited) == [i \in 1..Len(edited) |-> lineTrim(edited[i])]

\* .split("\n").map((l) => l.trim()).filter(Boolean)
newCommands(edited) ==
    SelectSeq([i \in 1..Len(edited) |-> lineTrim(edited[i])], IsNonEmpty)

\* handleEditCommandsAction after its text prompt, then renderPanels
EditCommandsSubmit ==
    /\ pc = "menuEditCommands"
    /\ \/ /\ lastEvent' = "abort"
          /\ Exit(0)
          /\ UNCHANGED <<currentResult, shown, editCount>>
       \/ \E edited \in EditedTexts :
             LET result == [currentResult EXCEPT !.commands = newCommands(edited)]
             IN  /\ lastEvent' = "edit-commands-submit"
                 /\ currentResult' = result
                 /\ shown' = Panels(result)
                 /\ editCount' = editCount + 1
                 /\ pc' = "menu"
                 /\ offered' = IF entry = "part_002" THEN MenuOptions ELSE LegacyMenuOptions
                 /\ UNCHANGED exitCode
    /\ UNCHANGED <<entry, config, cached, ctx, loopRequest, userRequest, cleanupFiles>>
    /\ UNCHANGED worldVars
    /\ UNCHANGED <<dispatchCalls, backendCalls, detectCalls, lastCall, firstSys,
                   lastReply, lastOutcome, submitted, loopCalls, loopFails, loopChoices, loopRetries>>
    /\ UNCHANGED <<argVars, harnessVars>>

\* ------------------------------------------------------------------------
\* Run all: runCommands, cleanup
\* ------------------------------------------------------------------------
Files == {"in.mp4", "out.mp4", "out.gif"}

\* the tokens of a command string that MEDIA_EXT_RE matches
MediaTokens(cmd) ==
    CASE cmd = "c1" -> {"in.mp4", "out.mp4"}
      [] cmd = "c2" -> {"out.mp4", "out.gif"}
      [] OTHER -> {}

\* the files a command creates when it exits 0
Outputs(cmd) ==
    CASE cmd = "c1" -> {"out.mp4"}
      [] cmd = "c2" -> {"out.gif"}
      [] OTHER -> {}

inferInputFiles(commands) == UNION {MediaTokens(commands[i]) : i \in 1..Len(commands)}

\* runCommands where the first n commands exit 0: the commands spawned
spawned(commands, n) ==
    SubSeq(commands, 1, IF n < Len(commands) THEN n + 1 ELSE n)

created(commands, n) == UNION {Outputs(commands[i]) : i \in 1..n}

\* ... and the exit statuses runCommands saw: 0 for each of the first n, then
\* a non-zero one when a command is left
exited(commands, n) ==
    [i \in 1..n |-> 0] \o (IF n < Len(commands) THEN <<1>> ELSE <<>>)

\* (mutant) the process ends with status 0 whatever runCommands returned
runExit_alwaysZero(success) == 0

\* handleRunAction: process.exit(success ? 0 : 1)
runExit(success) == IF success THEN 0 ELSE 1

\* (mutant) the existence test is made after runCommands
preExistingFiles_afterRun(commands, before, after) ==
    {f \in inferInputFiles(commands) : f \in after}

\* handleRunAction: the inferred files that exist, tested before runCommands
\* (before, after: the files there are before and after the commands ran)
preExistingFiles(commands, before, after) ==
    {f \in inferInputFiles(commands) : f \in before}

\* part_002: handleRunAction up to the cleanup prompt
MenuRun ==
    /\ entry = "part_002"
    /\ pc = "menu"
    /\ "run" \in offered
    /\ lastEvent' = "run"
    /\ \E n \in 0..Len(menuCommands) :
          LET commands == menuCommands
              preExisting == preExistingFiles(commands, fs, fs')
              success == n = Len(commands)
          IN  /\ executed' = executed \o spawned(commands, n)
              /\ exits' = exits \o exited(commands, n)
              /\ fs' = fs \cup created(commands, n)
              /\ IF success /\ preExisting # {}
                 THEN /\ cleanupFiles' = preExisting
                      /\ pc' = "cleanup"
                      /\ offered' = {}
                      /\ UNCHANGED exitCode
                 ELSE /\ Exit(runExit(success))
                      /\ UNCHANGED cleanupFiles
    /\ UNCHANGED <<entry, config, cached, ctx, loopRequest, userRequest,
                   currentResult, shown>>
    /\ UNCHANGED <<env, copied>>
    /\ UNCHANGED <<dispatchCalls, backendCalls, detectCalls, lastCall, firstSys,
                   lastReply, lastOutcome, submitted, loopCalls, loopFails,
                   loopChoices, loopRetries, editCount>>
    /\ UNCHANGED <<argVars, harnessVars>>

\* the answers to a confirm prompt: yes, no, Enter on the initial value, or
\* the prompt aborted (Ctrl-C)
ConfirmAnswers == {"yes", "no", "default", "abort"}

\* (mutant) the isCancel test is missing: the cancel symbol is truthy
deletionConfirmed_noCancelTest(answer) == answer \in {"yes", "abort"}

\* runCleanup: !(p.isCancel(confirm) || !confirm), with initialValue: false
deletionConfirmed(answer) == answer = "yes"

\* part_002: runCleanup after its confirm prompt (each rm may fail, which is
\* caught and logged), then process.exit(0)
Cleanup ==
    /\ pc = "cleanup"
    /\ \E answer \in ConfirmAnswers :
          /\ lastEvent' = answer
          /\ IF deletionConfirmed(answer)
             THEN \E failed \in SUBSET cleanupFiles :
                     fs' = fs \ (cleanupFiles \ failed)
             ELSE fs' = fs
    /\ Exit(runExit(TRUE))
    /\ UNCHANGED <<entry, config, cached, ctx, loopRequest, userRequest,
                   currentResult, shown, cleanupFiles>>
    /\ UNCHANGED <<env, executed, exits, copied>>
    /\ UNCHANGED <<dispatchCalls, backendCalls, detectCalls, lastCall, firstSys,
                   lastReply, lastOutcome, submitted, loopCalls, loopFails,
                   loopChoices, loopRetries, editCount>>
    /\ UNCHANGED <<argVars, harnessVars>>

\* src/index.ts: the run branch: runCommands, then process.exit
LegacyRun ==
    /\ entry = "index_ts"
    /\ pc = "menu"
    /\ "run" \in offered
    /\ lastEvent' = "run"
    /\ \E n \in 0..Len(menuCommands) :
          LET commands == menuCommands
          IN  /\ executed' = executed \o spawned(commands, n)
              /\ exits' = exits \o exited(commands, n)
              /\ fs' = fs \cup created(commands, n)
              /\ Exit(IF n = Len(commands) THEN 0 ELSE 1)
    /\ UNCHANGED <<entry, config, cached, ctx, loopRequest, userRequest,
                   currentResult, shown, cleanupFiles>>
    /\ UNCHANGED <<env, copied>>
    /\ UNCHANGED <<dispatchCalls, backendCalls, detectCalls, lastCall, firstSys,
                   lastReply, lastOutcome, submitted, loopCalls, loopFails,
                   loopChoices, loopRetries, editCount>>
    /\ UNCHANGED <<argVars, harnessVars>>

\* ------------------------------------------------------------------------
\* The machine around the process: a tool is installed or removed
\* ------------------------------------------------------------------------
ToolsChange ==
    /\ pc \notin {"exited", "idle"}
    /\ \E tool \in Tools :
          env' = IF tool \in env THEN env \ {tool} ELSE env \cup {tool}
    /\ UNCHANGED progVars
    /\ UNCHANGED <<fs, executed, exits, copied>>
    /\ UNCHANGED histVars
    /\ UNCHANGED <<argVars, harnessVars>>

\* ------------------------------------------------------------------------
\* detectContext step by step: the two probes run concurrently, the list runs
\* of probeFfmpeg are outstanding together (Promise.all)
\* ------------------------------------------------------------------------
NoRun == [k |-> "none", text |-> <<>>]
\* the command line of a probe process: the tool and what is asked of it
Cmd(tool, what) == <<tool, what>>
NotStarted(missing) == [st |-> "none", r |-> missing]
Rejected(p) == [st |-> "raised", r |-> p.r]

\* the locals of probeFfmpeg once the version is known, no list parsed yet
ffmpegLocals(versionOut) ==
    [installed |-> TRUE, version |-> versionOf(versionOut), codecs |-> <<>>,
     filters |-> <<>>, bitstreamFilters |-> <<>>, formats |-> <<>>]
magickLocals(versionOut) ==
    [installed |-> TRUE, version |-> versionOf(versionOut), formats |-> <<>>]

\* (mutant) the join waits for the transcoder probe only
joined_ffmpegOnly(f, m) == f.st \in {"done", "raised"}

\* await Promise.all([probeFfmpeg(), probeMagick()]): both have settled
joined(f, m) == f.st \in {"done", "raised"} /\ m.st \in {"done", "raised"}

\* detectContext is called: the cached snapshot when there is one, else both
\* probes are started, each up to the await of its version run
DetectCall ==
    /\ ppc \in {"idle", "returned"}
    /\ pcalls < MaxDetect
    /\ pcalls' = pcalls + 1
    /\ IF cacheHit(cached)
       THEN /\ pret' = cached
            /\ ppc' = "returned"
            /\ UNCHANGED <<pver, pffmpeg, pmagick, ppending, pflight, pspawns>>
       ELSE /\ ppc' = "probing"
            /\ pver' = [tool \in Tools |-> NoRun]
            /\ pffmpeg' = NotStarted(ffmpegMissing)
            /\ pmagick' = NotStarted(magickMissing)
            /\ ppending' = {}
            /\ pflight' = {Cmd("ffmpeg", "version"), Cmd("magick", "version")}
            /\ pspawns' = pspawns + 2
            /\ UNCHANGED pret
    /\ UNCHANGED <<progVars, worldVars, histVars, argVars, validateVars, runVars, configVars, promptVars>>

ProbeFfmpegVersion ==
    /\ ppc = "probing"
    /\ pffmpeg.st = "none"
    /\ \E o \in VersionOutcomes :
          LET v == run(o)
          IN  /\ pver' = [pver EXCEPT !.ffmpeg = o]
              /\ IF v.raised
                 THEN pffmpeg' = Rejected(pffmpeg) /\ ppending' = {}
                 ELSE IF v.out = <<>>
                 THEN pffmpeg' = [st |-> "done", r |-> ffmpegMissing] /\ ppending' = {}
                 ELSE /\ pffmpeg' = [st |-> "running", r |-> ffmpegLocals(v.out)]
                      /\ ppending' = FfmpegLists
    /\ pflight' = (pflight \ {Cmd("ffmpeg", "version")})
                        \cup {Cmd("ffmpeg", l) : l \in ppending'}
    /\ pspawns' = pspawns + Cardinality(ppending')
    /\ UNCHANGED <<ppc, pmagick, pcalls, pret>>
    /\ UNCHANGED <<progVars, worldVars, histVars, argVars, validateVars, runVars, configVars, promptVars>>

ProbeFfmpegList ==
    /\ ppc = "probing"
    /\ pffmpeg.st = "running"
    /\ \E l \in ppending, o \in ListOutcomes :
          LET v == run(o)
          IN  /\ IF v.raised
                 THEN pffmpeg' = Rejected(pffmpeg) /\ ppending' = {}
                 ELSE /\ pffmpeg' =
                           [st |-> IF ppending = {l} THEN "done" ELSE "running",
                            r |-> [pffmpeg.r EXCEPT ![l] = parseList(l, v.out)]]
                      /\ ppending' = ppending \ {l}
              /\ pflight' = pflight \ {Cmd("ffmpeg", l)}
    /\ UNCHANGED <<ppc, pver, pmagick, pspawns, pcalls, pret>>
    /\ UNCHANGED <<progVars, worldVars, histVars, argVars, validateVars, runVars, configVars, promptVars>>

ProbeMagickVersion ==
    /\ ppc = "probing"
    /\ pmagick.st = "none"
    /\ \E o \in VersionOutcomes :
          LET v == run(o)
          IN  /\ pver' = [pver EXCEPT !.magick = o]
              /\ IF v.raised
                 THEN pmagick' = Rejected(pmagick)
                 ELSE IF v.out = <<>>
                 THEN pmagick' = [st |-> "done", r |-> magickMissing]
                 ELSE pmagick' = [st |-> "running", r |-> magickLocals(v.out)]
    /\ pflight' = (pflight \ {Cmd("magick", "version")})
                        \cup (IF pmagick'.st = "running"
                              THEN {Cmd("magick", "formats")} ELSE {})
    /\ pspawns' = pspawns + (IF pmagick'.st = "running" THEN 1 ELSE 0)
    /\ UNCHANGED <<ppc, pffmpeg, ppending, pcalls, pret>>
    /\ UNCHANGED <<progVars, worldVars, histVars, argVars, validateVars, runVars, configVars, promptVars>>

ProbeMagickList ==
    /\ ppc = "probing"
    /\ pmagick.st = "running"
    /\ \E o \in ListOutcomes :
          LET v == run(o)
          IN  IF v.raised
              THEN pmagick' = Rejected(pmagick)
              ELSE pmagick' = [st |-> "done",
                               r |-> [pmagick.r EXCEPT !.formats = listed(v.out)]]
    /\ pflight' = pflight \ {Cmd("magick", "formats")}
    /\ UNCHANGED <<ppc, pver, pffmpeg, ppending, pspawns, pcalls, pret>>
    /\ UNCHANGED <<progVars, worldVars, histVars, argVars, validateVars, runVars, configVars, promptVars>>

\* Promise.all has settled: cached = { ffmpeg, magick }; return cached
DetectReturn ==
    /\ ppc = "probing"
    /\ joined(pffmpeg, pmagick)
    /\ IF pffmpeg.st = "raised" \/ pmagick.st = "raised"
       THEN ppc' = "raised" /\ UNCHANGED <<cached, pret>>
       ELSE /\ cached' = snapshotOf(pffmpeg.r, pmagick.r)
            /\ pret' = cached'
            /\ ppc' = "returned"
    /\ UNCHANGED <<pver, pffmpeg, pmagick, ppending, pflight, pspawns, pcalls>>
    /\ UNCHANGED <<entry, pc, config, ctx, loopRequest, userRequest, currentResult,
                   shown, offered, cleanupFiles, exitCode>>
    /\ UNCHANGED <<worldVars, histVars, argVars, validateVars, runVars, configVars, promptVars>>

\* ------------------------------------------------------------------------
\* runCommands step by step (unnamed/part_004)
\* ------------------------------------------------------------------------
\* proc.exitCode after proc.exited: 0, a failure status, or null (here -1)
\* when a signal ended the process
ExitCodes == {0, 1, -1}
RunCommandNames == {"c1", "c2"}

\* (mutant) only a positive status stops the series
exitFailed_positiveOnly(code) == code > 0

\* proc.exitCode !== 0
exitFailed(code) == code # 0

\* Bun.spawn(["sh", "-c", cmd]) of the loop's current command
RunSpawn ==
    /\ rpc = "loop"
    /\ ri <= Len(rcommands)
    /\ rlog' = Append(rlog, rcommands[ri])
    /\ rlive' = rlive \cup {ri}
    /\ rpc' = "await"
    /\ UNCHANGED <<rcommands, ri, rexits, rret>>
    /\ UNCHANGED <<progVars, worldVars, histVars, argVars, validateVars, probeVars, configVars, promptVars>>

\* await proc.exited, then the test of the exit code
RunExited ==
    /\ rpc = "await"
    /\ \E code \in ExitCodes :
          /\ rexits' = Append(rexits, code)
          /\ rlive' = rlive \ {ri}
          /\ IF exitFailed(code)
             THEN rret' = "false" /\ rpc' = "returned" /\ UNCHANGED ri
             ELSE ri' = ri + 1 /\ rpc' = "loop" /\ UNCHANGED rret
    /\ UNCHANGED <<rcommands, rlog>>
    /\ UNCHANGED <<progVars, worldVars, histVars, argVars, validateVars, probeVars, configVars, promptVars>>

\* the loop is through: onSuccess, return true
RunReturn ==
    /\ rpc = "loop"
    /\ ri > Len(rcommands)
    /\ rret' = "true"
    /\ rpc' = "returned"
    /\ UNCHANGED <<rcommands, ri, rlive, rlog, rexits>>
    /\ UNCHANGED <<progVars, worldVars, histVars, argVars, validateVars, probeVars, configVars, promptVars>>

\* ------------------------------------------------------------------------
\* The configuration store (unnamed/part_006) and the processes that use it:
\* setup, teardown, and the start of a conversion (unnamed/part_002)
\* ------------------------------------------------------------------------
\* A stored text: nothing (undefined or the empty string), a text JSON.parse
\* throws on, or the JSON of a value (of null, or of a configuration).
Unset == [k |-> "unset", v |-> ConfigNull]
Invalid == [k |-> "invalid", v |-> ConfigNull]
Json(c) == [k |-> "json", v |-> c]
ConfigClaude == [defaultProvider |-> "claude", cloudflare |-> FALSE]
ConfigCloudflare == [defaultProvider |-> "cloudflare", cloudflare |-> TRUE]
EnvTexts == {Unset, Invalid, Json(ConfigClaude)}
SecretTexts == {Unset, Invalid, Json(ConfigNull), Json(ConfigClaude), Json(ConfigCloudflare)}

\* (mutant) a two-state cache: null is taken for "not loaded"
cacheLoaded_truthy(c) == c # Undefined /\ c # ConfigNull

\* _cache !== undefined
cacheLoaded(c) == c # Undefined

\* getConfig past the cache test: the environment variable when it parses,
\* else the secret store's entry when it can be read and parses, else null
loadConfig(envVal, secret, available) ==
    IF envVal.k = "json" THEN envVal.v
    ELSE IF available /\ secret.k = "json" THEN secret.v
    ELSE ConfigNull

\* (mutant) setup saves the local agent without looking at which's status
whichFailed_ignored(exitStatus) == FALSE

\* proc.exitCode !== 0 of `which claude`
whichFailed(exitStatus) == exitStatus # "0"

\* the exit status of `which claude`
whichClaude(onPath) == IF onPath THEN "0" ELSE "1"

\* process.exit, or the end of the main module
CExit(code) ==
    /\ cpc' = "shell"
    /\ cexit' = code

\* one call of an exported function of config.ts: its argument, and whether
\* it raised
Call(fn, arg, raised) == [fn |-> fn, arg |-> arg, raised |-> raised]

\* (mutant) the cache is assigned before the store is written
setConfig_cacheFirst(c, stored_ok) ==
    /\ ccache' = c
    /\ csecret' = IF stored_ok THEN Json(c) ELSE csecret
    /\ cwrites' = cwrites + (IF stored_ok THEN 1 ELSE 0)
    /\ capi' = Append(capi, Call("setConfig", c, ~stored_ok))

\* setConfig: Bun.secrets.set, whose error is thrown on; then _cache = config
setConfig(c, stored_ok) ==
    /\ IF stored_ok
       THEN /\ csecret' = Json(c)
            /\ ccache' = c
            /\ cwrites' = cwrites + 1
       ELSE UNCHANGED <<csecret, ccache, cwrites>>
    /\ capi' = Append(capi, Call("setConfig", c, ~stored_ok))

\* (mutant) the cache is reset to null: loaded, nothing found
deleteConfig_toNull(deleted) ==
    /\ ccache' = ConfigNull
    /\ csecret' = IF deleted THEN Unset ELSE csecret
    /\ capi' = Append(capi, Call("deleteConfig", Undefined, FALSE))

\* deleteConfig: _cache = undefined, then Bun.secrets.delete, whose error
\* is swallowed
deleteConfig(deleted) ==
    /\ ccache' = Undefined
    /\ csecret' = IF deleted THEN Unset ELSE csecret
    /\ capi' = Append(capi, Call("deleteConfig", Undefined, FALSE))

\* setConfig, then the caller's exit: on a store error exit 1
SaveAndExit(c) ==
    \E stored_ok \in BOOLEAN :
        /\ setConfig(c, stored_ok)
        /\ CExit(IF stored_ok THEN 0 ELSE 1)

\* a process is started: its module state is fresh
CliStart ==
    /\ cpc \in {"shell", "generated"}
    /\ cinv < MaxInvocations
    /\ cinv' = cinv + 1
    /\ \E subcommand \in {"setup", "teardown", "conversion"} : cpc' = subcommand
    /\ cenv' \in EnvTexts
    /\ cov' \in Overrides
    /\ ccache' = Undefined
    /\ cgets' = 0
    /\ cenvReads' = 0
    /\ csecretReads' = 0
    /\ cret' = Undefined
    /\ cout' = NoOutcome
    /\ cconfig' = Undefined
    /\ cprev' = cov
    /\ cwhich' = "none"
    /\ capi' = <<>>
    /\ UNCHANGED <<csecret, cagent, cwrites, cspawns, cexit>>
    /\ UNCHANGED <<progVars, worldVars, histVars, argVars, validateVars, runVars, probeVars,
                   promptVars>>

\* runSetup: the provider select, and for claude the presence check and save
SetupProvider ==
    /\ cpc = "setup"
    /\ \E provider \in {"cancel", "cloudflare", "claude"} :
          CASE provider = "cancel" ->
                  /\ CExit(0)
                  /\ UNCHANGED <<csecret, ccache, cwrites, cwhich, capi>>
            [] provider = "cloudflare" ->
                  /\ cpc' = "accountId"
                  /\ UNCHANGED <<csecret, ccache, cwrites, cexit, cwhich, capi>>
            [] provider = "claude" ->
                  /\ cwhich' = whichClaude(cagent)
                  /\ IF whichFailed(whichClaude(cagent))
                     THEN /\ CExit(1)
                          /\ UNCHANGED <<csecret, ccache, cwrites, capi>>
                     ELSE SaveAndExit(ConfigClaude)
    /\ UNCHANGED <<cinv, cenv, cov, cagent, cgets, cenvReads, csecretReads, cret,
                   cspawns, cout>>
    /\ UNCHANGED <<cconfig, cprev>>
    /\ UNCHANGED <<progVars, worldVars, histVars, argVars, validateVars, runVars, probeVars,
                   promptVars>>

\* setupCloudflare: the account id prompt, then the token prompt and the save
SetupCredentials ==
    /\ cpc \in {"accountId", "apiToken"}
    /\ \E cancelled \in BOOLEAN :
          IF cancelled
          THEN /\ CExit(0)
               /\ UNCHANGED <<csecret, ccache, cwrites, capi>>
          ELSE IF cpc = "accountId"
          THEN /\ cpc' = "apiToken"
               /\ UNCHANGED <<csecret, ccache, cwrites, cexit, capi>>
          ELSE SaveAndExit(ConfigCloudflare)
    /\ UNCHANGED <<cinv, cenv, cov, cagent, cgets, cenvReads, csecretReads, cret,
                   cspawns, cout>>
    /\ UNCHANGED <<cconfig, cprev, cwhich>>
    /\ UNCHANGED <<progVars, worldVars, histVars, argVars, validateVars, runVars, probeVars,
                   promptVars>>

\* runTeardown: the confirm prompt, deleteConfig
Teardown ==
    /\ cpc = "teardown"
    /\ \E answer \in {"yes", "no", "abort"}, deleted \in BOOLEAN :
          IF answer = "yes"
          THEN deleteConfig(deleted)
          ELSE UNCHANGED <<ccache, csecret, capi>>
    /\ CExit(0)
    /\ UNCHANGED <<cinv, cenv, cov, cagent, cgets, cenvReads, csecretReads, cret,
                   cwrites, cspawns, cout>>
    /\ UNCHANGED <<cconfig, cprev, cwhich>>
    /\ UNCHANGED <<progVars, worldVars, histVars, argVars, validateVars, runVars, probeVars,
                   promptVars>>

\* getConfig, called by the conversion path or by a client of the module
GetConfig ==
    /\ cpc \in {"conversion", "module"}
    /\ cgets < MaxGet
    /\ cpc = "module" => Len(capi) < MaxApiCalls
    /\ cgets' = cgets + 1
    /\ capi' = Append(capi, Call("getConfig", Undefined, FALSE))
    /\ IF cacheLoaded(ccache)
       THEN /\ cret' = ccache
            /\ UNCHANGED <<ccache, cenvReads, csecretReads>>
       ELSE \E available \in BOOLEAN :
              /\ ccache' = loadConfig(cenv, csecret, available)
              /\ cret' = ccache'
              /\ cenvReads' = cenvReads + 1
              /\ csecretReads' = csecretReads + (IF cenv.k = "json" THEN 0 ELSE 1)
    /\ UNCHANGED <<cpc, cinv, cenv, cov, csecret, cagent, cwrites, cspawns, cout, cexit>>
    /\ UNCHANGED <<cconfig, cprev, cwhich>>
    /\ UNCHANGED <<progVars, worldVars, histVars, argVars, validateVars, runVars, probeVars,
                   promptVars>>

\* main after getConfig: the override, the two checks, and the first
\* generate; the conversion then goes on (recovery, menu) without touching
\* the store, and a later process may be started once it has ended
ConversionGenerate ==
    /\ cpc = "conversion"
    /\ cgets >= 1
    /\ LET cfg == applyOverride(cret, cov)
       IN  /\ cconfig' = cfg
           /\ IF configError(cfg) # "none"
              THEN /\ CExit(1)
                   /\ UNCHANGED <<cspawns, cout>>
              ELSE \E reply \in BackendReplies :
                     /\ cfg.defaultProvider = "claude" => (reply.k = "fail" <=> ~cagent)
                     /\ cout' = generate(cfg, reply)
                     /\ cspawns' = cspawns + (IF cfg.defaultProvider = "claude" THEN 1 ELSE 0)
                     /\ cpc' = "generated"
                     /\ UNCHANGED cexit
    /\ UNCHANGED <<cprev, cwhich, capi>>
    /\ UNCHANGED <<cinv, ccache, cenv, cov, csecret, cagent, cgets, cenvReads,
                   csecretReads, cret, cwrites>>
    /\ UNCHANGED <<progVars, worldVars, histVars, argVars, validateVars, runVars, probeVars,
                   promptVars>>

\* the machine around the processes: the agent is installed or removed, the
\* secret store's entry is changed from outside the running process
AgentChange ==
    /\ cpc # "off"
    /\ cagent' = ~cagent
    /\ UNCHANGED <<cpc, cinv, ccache, cenv, cov, csecret, cgets, cenvReads,
                   csecretReads, cret, cwrites, cspawns, cout, cexit>>
    /\ UNCHANGED <<cconfig, cprev, cwhich, capi>>
    /\ UNCHANGED <<progVars, worldVars, histVars, argVars, validateVars, runVars, probeVars,
                   promptVars>>

SecretChange ==
    /\ cpc = "conversion"
    /\ csecret' \in SecretTexts \ {csecret}
    /\ UNCHANGED <<cpc, cinv, ccache, cenv, cov, cagent, cgets, cenvReads,
                   csecretReads, cret, cwrites, cspawns, cout, cexit>>
    /\ UNCHANGED <<cconfig, cprev, cwhich, capi>>
    /\ UNCHANGED <<progVars, worldVars, histVars, argVars, validateVars, runVars, probeVars,
                   promptVars>>

\* config.ts as a module: a client calls setConfig and deleteConfig, besides
\* getConfig, in any order inside one process
SetConfig ==
    /\ cpc = "module"
    /\ Len(capi) < MaxApiCalls
    /\ \E c \in {ConfigClaude, ConfigCloudflare}, stored_ok \in BOOLEAN :
          setConfig(c, stored_ok)
    /\ UNCHANGED <<cpc, cinv, cenv, cov, cagent, cgets, cenvReads, csecretReads, cret,
                   cspawns, cout, cexit>>
    /\ UNCHANGED <<cconfig, cprev, cwhich>>
    /\ UNCHANGED <<progVars, worldVars, histVars, argVars, validateVars, runVars, probeVars,
                   promptVars>>

DeleteConfig ==
    /\ cpc = "module"
    /\ Len(capi) < MaxApiCalls
    /\ \E deleted \in BOOLEAN : deleteConfig(deleted)
    /\ UNCHANGED <<cpc, cinv, cenv, cov, cagent, cgets, cenvReads, csecretReads, cret,
                   cwrites, cspawns, cout, cexit>>
    /\ UNCHANGED <<cconfig, cprev, cwhich>>
    /\ UNCHANGED <<progVars, worldVars, histVars, argVars, validateVars, runVars, probeVars,
                   promptVars>>

\* ------------------------------------------------------------------------
\* buildSystemPrompt on its own, over bounded capability snapshots
\* ------------------------------------------------------------------------
CapabilityLists == {<<>>, <<"n1">>, <<"n1", "n2">>}
Versions == {"undefined", "v1"}

\* the snapshots detectContext can return: lists are empty when not installed
FfmpegEntries ==
    {ffmpegMissing}
        \cup [installed : {TRUE}, version : Versions, codecs : CapabilityLists,
              filters : CapabilityLists, bitstreamFilters : CapabilityLists,
              formats : CapabilityLists]
MagickEntries ==
    {magickMissing}
        \cup [installed : {TRUE}, version : Versions, formats : CapabilityLists]
Snapshots == [ffmpeg : FfmpegEntries, magick : MagickEntries]

\* the same for the older revision of lib/tools.ts
LegacyFfmpegEntries ==
    {[installed |-> FALSE, version |-> "undefined", encoders |-> <<>>, decoders |-> <<>>]}
        \cup [installed : {TRUE}, version : Versions, encoders : CapabilityLists,
              decoders : CapabilityLists]
LegacySnapshots == [ffmpeg : LegacyFfmpegEntries, magick : MagickEntries]

BuildSystemPrompt ==
    /\ qpc = "input"
    /\ qsys' = IF qrev = "legacy"
               THEN legacyBuildSystemPrompt(qctx)
               ELSE buildSystemPrompt(qctx)
    /\ qpc' = "built"
    /\ UNCHANGED <<qrev, qctx>>
    /\ UNCHANGED <<progVars, worldVars, histVars, argVars, validateVars, runVars, probeVars,
                   configVars>>

\* ------------------------------------------------------------------------
\* Specifications
\* ------------------------------------------------------------------------
FlowInit ==
    /\ pc = "main"
    /\ config = ConfigNull
    /\ cached = Undefined
    /\ ctx = Undefined
    /\ loopRequest = ""
    /\ userRequest = ""
    /\ currentResult = NoResult
    /\ shown = Nothing
    /\ offered = {}
    /\ cleanupFiles = {}
    /\ exitCode = -1
    /\ fs = {"in.mp4"}
    /\ executed = <<>>
    /\ exits = <<>>
    /\ copied = <<>>
    /\ dispatchCalls = 0
    /\ backendCalls = 0
    /\ detectCalls = 0
    /\ lastCall = NoCall
    /\ firstSys = <<>>
    /\ lastReply = NoReply
    /\ lastOutcome = NoOutcome
    /\ lastEvent = "start"
    /\ submitted = InitialRequest
    /\ loopCalls = 0
    /\ loopFails = 0
    /\ loopChoices = 0
    /\ loopRetries = 0
    /\ editCount = 0

ValidateOff ==
    /\ vstage = "off"
    /\ vraw = <<>>
    /\ vfenced = <<>>
    /\ vout = NoOutcome
    /\ voutFenced = NoOutcome
    /\ vbody = Undefined
    /\ vremote = NoOutcome
    /\ vlocal = NoOutcome

RunOff ==
    /\ rpc = "off"
    /\ rcommands = <<>>
    /\ ri = 1
    /\ rlive = {}
    /\ rlog = <<>>
    /\ rexits = <<>>
    /\ rret = "none"

ProbeOff ==
    /\ ppc = "off"
    /\ pver = [tool \in Tools |-> NoRun]
    /\ pffmpeg = NotStarted(ffmpegMissing)
    /\ pmagick = NotStarted(magickMissing)
    /\ ppending = {}
    /\ pflight = {}
    /\ pspawns = 0
    /\ pcalls = 0
    /\ pret = Undefined

ConfigOff ==
    /\ cpc = "off"
    /\ cinv = 0
    /\ ccache = Undefined
    /\ cenv = Unset
    /\ cov = "none"
    /\ csecret = Unset
    /\ cagent = FALSE
    /\ cgets = 0
    /\ cenvReads = 0
    /\ csecretReads = 0
    /\ cret = Undefined
    /\ cwrites = 0
    /\ cspawns = 0
    /\ cout = NoOutcome
    /\ cexit = -1
    /\ cconfig = Undefined
    /\ cprev = "none"
    /\ cwhich = "none"
    /\ capi = <<>>

PromptOff ==
    /\ qpc = "off"
    /\ qrev = "current"
    /\ qctx = Undefined
    /\ qsys = <<>>

Init ==
    /\ FlowInit
    /\ entry \in {"part_002", "index_ts"}
    /\ env \in SUBSET Tools
    /\ stored \in StoredConfigs
    /\ providerOverride \in Overrides
    /\ ValidateOff
    /\ RunOff
    /\ ProbeOff
    /\ ConfigOff
    /\ PromptOff

ProgramNext ==
    \/ Main
    \/ Detect
    \/ TryGenerate
    \/ LegacyGenerate
    \/ RecoveryChoose
    \/ RecoveryEditSubmit
    \/ MenuCancel
    \/ MenuRetry
    \/ MenuEditPrompt
    \/ EditPromptSubmit
    \/ MenuCopy
    \/ MenuEditCommands
    \/ EditCommandsSubmit
    \/ MenuRun
    \/ Cleanup
    \/ LegacyRun

Next == ProgramNext \/ ToolsChange

Spec == Init /\ [][Next]_vars

\* handleRunAction and runCleanup on their own: the process at the action
\* menu of part_002 with some generated commands, on any set of files
RunAllCommands == SeqsUpTo({"c1", "c2", "c3"}, MaxCmds)

InitRunAll ==
    /\ entry = "part_002"
    /\ pc = "menu"
    /\ config = ConfigClaude
    /\ cached = probe({"ffmpeg"})
    /\ ctx = cached
    /\ loopRequest = InitialRequest
    /\ userRequest = InitialRequest
    /\ \E commands \in RunAllCommands :
          currentResult = [kind |-> "ok", commands |-> commands, explanation |-> "e1"]
    /\ shown = Panels(currentResult)
    /\ offered = MenuOptions
    /\ cleanupFiles = {}
    /\ exitCode = -1
    /\ env = {"ffmpeg"}
    /\ fs \in SUBSET Files
    /\ executed = <<>>
    /\ exits = <<>>
    /\ copied = <<>>
    /\ dispatchCalls = 1
    /\ backendCalls = 1
    /\ detectCalls = 1
    /\ lastCall = [sys |-> buildSystemPrompt(ctx), user |-> buildUserPrompt(InitialRequest)]
    /\ firstSys = buildSystemPrompt(ctx)
    /\ lastReply = NoReply
    /\ lastOutcome = currentResult
    /\ lastEvent = "dispatch"
    /\ submitted = InitialRequest
    /\ loopCalls = 1
    /\ loopFails = 0
    /\ loopChoices = 0
    /\ loopRetries = 0
    /\ editCount = 0
    /\ stored = ConfigClaude
    /\ providerOverride = "none"
    /\ ValidateOff
    /\ RunOff
    /\ ProbeOff
    /\ ConfigOff
    /\ PromptOff

NextRunAll == MenuRun \/ Cleanup

SpecRunAll == InitRunAll /\ [][NextRunAll]_vars

\* validateResponse on its own, over the bounded texts
\* the program outside a conversion, for the functions taken on their own
Idle ==
    /\ FlowInit
    /\ entry = "part_002"
    /\ env = {}
    /\ stored = ConfigNull
    /\ providerOverride = "none"

InitValidate ==
    /\ Idle
    /\ vstage = "input"
    /\ vraw \in Texts
    /\ vfenced = <<>>
    /\ vout = NoOutcome
    /\ voutFenced = NoOutcome
    /\ vbody \in {remoteBody(vraw)} \cup (IF vraw = <<>> THEN TextlessBodies ELSE {})
    /\ vremote = NoOutcome
    /\ vlocal = NoOutcome
    /\ RunOff
    /\ ProbeOff
    /\ ConfigOff
    /\ PromptOff

NextValidate == ValidateInput \/ ValidateFenced \/ PostProcess

SpecValidate == InitValidate /\ [][NextValidate]_vars

\* runCommands on its own, over the bounded command lists
InitRun ==
    /\ Idle
    /\ ValidateOff
    /\ ProbeOff
    /\ ConfigOff
    /\ PromptOff
    /\ rpc = "loop"
    /\ rcommands \in SeqsUpTo(RunCommandNames, MaxRun)
    /\ ri = 1
    /\ rlive = {}
    /\ rlog = <<>>
    /\ rexits = <<>>
    /\ rret = "none"

NextRun == RunSpawn \/ RunExited \/ RunReturn

SpecRun == InitRun /\ [][NextRun]_vars

\* detectContext on its own, called with an empty cache
InitProbe ==
    /\ Idle
    /\ ValidateOff
    /\ RunOff
    /\ ConfigOff
    /\ PromptOff
    /\ ppc = "idle"
    /\ pver = [tool \in Tools |-> NoRun]
    /\ pffmpeg = NotStarted(ffmpegMissing)
    /\ pmagick = NotStarted(magickMissing)
    /\ ppending = {}
    /\ pflight = {}
    /\ pspawns = 0
    /\ pcalls = 0
    /\ pret = Undefined

NextProbe ==
    \/ DetectCall
    \/ ProbeFfmpegVersion
    \/ ProbeFfmpegList
    \/ ProbeMagickVersion
    \/ ProbeMagickList
    \/ DetectReturn

SpecProbe == InitProbe /\ [][NextProbe]_vars

\* the configuration store over a few processes on one machine
InitConfig ==
    /\ Idle
    /\ ValidateOff
    /\ RunOff
    /\ ProbeOff
    /\ cpc = "shell"
    /\ cinv = 0
    /\ ccache = Undefined
    /\ cenv = Unset
    /\ cov = "none"
    /\ csecret \in SecretTexts
    /\ cagent \in BOOLEAN
    /\ cgets = 0
    /\ cenvReads = 0
    /\ csecretReads = 0
    /\ cret = Undefined
    /\ cwrites = 0
    /\ cspawns = 0
    /\ cout = NoOutcome
    /\ cexit = -1
    /\ cconfig = Undefined
    /\ cprev = "none"
    /\ cwhich = "none"
    /\ capi = <<>>
    /\ PromptOff

NextConfig ==
    \/ CliStart
    \/ SetupProvider
    \/ SetupCredentials
    \/ Teardown
    \/ GetConfig
    \/ ConversionGenerate
    \/ AgentChange
    \/ SecretChange

SpecConfig == InitConfig /\ [][NextConfig]_vars

\* config.ts on its own: one process, any environment variable and store
InitConfigApi ==
    /\ Idle
    /\ ValidateOff
    /\ RunOff
    /\ ProbeOff
    /\ cpc = "module"
    /\ cinv = 1
    /\ ccache = Undefined
    /\ cenv \in EnvTexts
    /\ cov = "none"
    /\ csecret \in SecretTexts
    /\ cagent = FALSE
    /\ cgets = 0
    /\ cenvReads = 0
    /\ csecretReads = 0
    /\ cret = Undefined
    /\ cwrites = 0
    /\ cspawns = 0
    /\ cout = NoOutcome
    /\ cexit = -1
    /\ cconfig = Undefined
    /\ cprev = "none"
    /\ cwhich = "none"
    /\ capi = <<>>
    /\ PromptOff

NextConfigApi == GetConfig \/ SetConfig \/ DeleteConfig

SpecConfigApi == InitConfigApi /\ [][NextConfigApi]_vars

\* buildSystemPrompt on its own
InitPrompt ==
    /\ Idle
    /\ ValidateOff
    /\ RunOff
    /\ ProbeOff
    /\ ConfigOff
    /\ qpc = "input"
    /\ \/ qrev = "current" /\ qctx \in Snapshots
       \/ qrev = "legacy" /\ qctx \in LegacySnapshots
    /\ qsys = <<>>

NextPrompt == BuildSystemPrompt

SpecPrompt == InitPrompt /\ [][NextPrompt]_vars

\* ------------------------------------------------------------------------
\* Properties of validateResponse
\* ------------------------------------------------------------------------
\* The shape the contract requires of a parsed value, stated on its own.
RequiredShape(v) ==
    /\ v.t = "object"
    /\ v.commands.t = "array"
    /\ \A i \in 1..Len(v.commands.v) : v.commands.v[i].t = "string"
    /\ v.explanation.t = "string"

\* the text is itself valid structured data of the required shape
ValidStructured(text) ==
    /\ JSONparse(text).ok
    /\ RequiredShape(JSONparse(text).value)

\* C2: whenever validateResponse raises a ValidationError, on the text as
\* given or on a fenced variant of it, the error's raw text is the text that
\* was passed in, not the trimmed / fence-stripped intermediate.
C2_RawTextPreserved ==
    /\ (vstage \in {"validated", "fenced"} /\ vout.kind = "ValidationError")
          => vout.raw = vraw
    /\ (vstage = "fenced" /\ voutFenced.kind = "ValidationError")
          => voutFenced.raw = vfenced

\* a validation failure on a text that cleaning changes
C2_Witness ==
    /\ vstage = "validated"
    /\ vout.kind = "ValidationError"
    /\ clean(vraw) # vraw
    /\ trim(vraw) # vraw
    /\ vout.raw = vraw

\* C3 (as claimed): every text yields a GenerateResult or a ValidationError
\* carrying the raw text; a text whose cleaned form does not parse, or parses
\* to anything but an object of the required shape, yields the ValidationError.
C3_ShapeRejectionTotal ==
    vstage \in {"validated", "fenced"} =>
        LET parsed == JSONparse(clean(vraw))
        IN  IF parsed.ok /\ RequiredShape(parsed.value)
            THEN vout.kind = "ok"
            ELSE vout.kind = "ValidationError" /\ vout.raw = vraw

\* C4: for a text that is valid structured data, validateResponse succeeds on
\* the text itself (no fence present) and on every fenced variant of it, with
\* the same commands and explanation.
C4_FenceEquivalence ==
    /\ (vstage \in {"validated", "fenced"} /\ ValidStructured(vraw))
          => vout.kind = "ok"
    /\ (vstage = "fenced" /\ ValidStructured(vraw))
          => /\ voutFenced.kind = "ok"
             /\ voutFenced.commands = vout.commands
             /\ voutFenced.explanation = vout.explanation

\* a valid text wrapped in ```json ... ``` with whitespace of its own inside
C4_Witness ==
    /\ vstage = "fenced"
    /\ ValidStructured(vraw)
    /\ Len(vraw) > 1
    /\ Len(vfenced) >= Len(vraw) + 4
    /\ vfenced[1] = FENCE
    /\ vfenced[2] = TAG
    /\ vfenced[Len(vfenced)] = FENCE
    /\ voutFenced.kind = "ok"

\* ------------------------------------------------------------------------
\* Properties of the recovery loop and the conversion flow
\* ------------------------------------------------------------------------
\* the current generateUntilSuccess has not returned and the process lives
InLoop == pc \in {"generating", "failed", "recoveryEdit"}

\* the current generateUntilSuccess has returned a result to runConversion
LoopSucceeded ==
    /\ entry = "part_002"
    /\ loopCalls >= 1
    /\ loopFails < loopCalls
    /\ ~InLoop

\* the process ended on a cancel (or aborted prompt) of the recovery prompt
LoopCancelled ==
    /\ entry = "part_002"
    /\ pc = "exited"
    /\ lastEvent \in {"cancel", "abort"}
    /\ loopCalls >= 1
    /\ loopFails = loopCalls

\* So far this invocation is the scripted run (fail, fail, succeed) with an
\* operator who has chosen retry every time.
RetryRun ==
    /\ entry = "part_002"
    /\ ~(pc = "exited" /\ loopCalls = 0)
    /\ loopChoices = loopRetries
    /\ loopCalls <= 3
    /\ loopFails = (IF loopCalls = 3 THEN 2 ELSE loopCalls)

\* So far this invocation is a first failure on which the operator cancels.
CancelRun ==
    /\ entry = "part_002"
    /\ ~(pc = "exited" /\ loopCalls = 0)
    /\ loopCalls <= 1
    /\ loopFails = loopCalls
    /\ loopRetries = 0
    /\ loopChoices >= 1 => lastEvent \in {"cancel", "abort"}

\* C1: with outcomes (fail, fail, succeed) and an operator who always retries,
\* generateUntilSuccess is still looping after one and two calls of generate,
\* each failure leaving it at the recovery prompt, and has returned its result
\* after exactly three; with an operator who cancels on the first failure the
\* process has ended Cancelled, status 0, after exactly one call.
C1_RecoveryLoopTermination ==
    /\ RetryRun =>
          /\ pc # "exited" \/ loopCalls = 3
          /\ loopCalls \in {1, 2} => pc \in {"generating", "failed"}
          /\ pc = "failed" => loopCalls \in {1, 2} /\ loopRetries = loopCalls - 1
          /\ pc = "generating" => loopCalls < 3 /\ loopRetries = loopCalls
          /\ loopCalls = 3 => LoopSucceeded /\ currentResult.kind = "ok"
    /\ (CancelRun /\ loopChoices >= 1) =>
          /\ LoopCancelled
          /\ loopCalls = 1
          /\ loopChoices = 1
          /\ exitCode = 0

\* the cancelling operator's run has ended
C1_WitnessCancel ==
    /\ CancelRun
    /\ LoopCancelled
    /\ lastEvent = "cancel"

C1_Witness ==
    /\ RetryRun
    /\ LoopSucceeded
    /\ loopCalls = 3
    /\ loopRetries = 2
    /\ dispatchCalls = 3
    /\ pc = "menu"

\* C5: the reply {"commands":[],"explanation":"cannot be done"} validates to a
\* result with no commands; the flow shows it and opens the action menu, not
\* the recovery prompt.
C5_EmptyCommandsValid ==
    (lastEvent = "dispatch" /\ lastReply = [k |-> "text", text |-> TextEmpty]) =>
        /\ lastOutcome.kind = "ok"
        /\ lastOutcome.commands = <<>>
        /\ lastOutcome.explanation = "cannot be done"
        /\ pc = "menu"
        /\ currentResult = lastOutcome
        /\ shown = Panels(lastOutcome)

C5_Witness ==
    /\ lastEvent = "dispatch"
    /\ lastReply = [k |-> "text", text |-> TextEmpty]
    /\ entry = "part_002"
    /\ pc = "menu"
    /\ currentResult.commands = <<>>

\* C6 (as claimed): every ValidationError of an attempt puts the process in
\* the Failed state: the raw text is shown and the operator is asked how to
\* continue; nothing else ends the process on it.
C6_ValidationFailureToRecovery ==
    (lastEvent = "dispatch" /\ lastOutcome.kind = "ValidationError") =>
        /\ pc = "failed"
        /\ exitCode = -1
        /\ shown = [kind |-> "raw", text |-> lastOutcome.raw]
        /\ offered = {"retry", "edit-prompt", "cancel"}

\* C7: the recovery prompt offers exactly retry, edit-prompt and cancel, and
\* every step out of Failed is Retrying (same request), EditingPrompt or
\* Cancelled; none dispatches, executes or changes the result.
C7_Retrying ==
    /\ pc' = "generating"
    /\ lastEvent' = "retry"
    /\ loopRequest' = loopRequest
C7_EditingPrompt ==
    /\ pc' = "recoveryEdit"
    /\ lastEvent' = "edit-prompt"
C7_Cancelled ==
    /\ pc' = "exited"
    /\ lastEvent' \in {"cancel", "abort"}
    /\ exitCode' = 0
C7_OutOfFailed ==
    (pc = "failed" /\ pc' # "failed") =>
        /\ C7_Retrying \/ C7_EditingPrompt \/ C7_Cancelled
        /\ dispatchCalls' = dispatchCalls
        /\ executed' = executed
        /\ currentResult' = currentResult
C7_ThreeContinuations ==
    /\ [](pc = "failed" => offered = {"retry", "edit-prompt", "cancel"})
    /\ [][C7_OutOfFailed]_vars

C7_Witness ==
    /\ pc = "recoveryEdit"
    /\ lastEvent = "edit-prompt"
    /\ loopCalls = 2

\* C8: every generate call of a conversion carries the system prompt of the
\* first call, built from the one snapshot detectContext took, and the request
\* text the operator submitted last.
C8_SamePromptCurrentRequest ==
    dispatchCalls >= 1 =>
        /\ detectCalls = 1
        /\ firstSys = buildSystemPrompt(ctx)
        /\ lastCall.sys = firstSys
        /\ pc # "generating" => lastCall.user = submitted

C8_Witness ==
    /\ dispatchCalls >= 2
    /\ probe(env) # ctx
    /\ lastEvent = "dispatch"
    /\ lastCall.user = "r1"
    /\ lastCall.sys = firstSys

\* C9: every call of generate makes one backend invocation, and every call
\* after the first follows at once on the operator's retry or on the
\* submission of an edited request.
C9_DispatchStep ==
    dispatchCalls' # dispatchCalls =>
        /\ dispatchCalls' = dispatchCalls + 1
        /\ backendCalls' = backendCalls + 1
        /\ dispatchCalls >= 1 => lastEvent \in {"retry", "edit-submit"}
C9_NoAutomaticResubmission == [][C9_DispatchStep]_vars

C9_Witness ==
    /\ dispatchCalls = 3
    /\ backendCalls = 3
    /\ lastEvent = "dispatch"

\* C10: a cancel or an aborted prompt in the recovery prompt ends the process
\* with status 0, also when an earlier result exists; an ended process makes no
\* further step.
C10_CancelStep ==
    (pc \in {"failed", "recoveryEdit"} /\ lastEvent' \in {"cancel", "abort"}) =>
        /\ pc' = "exited"
        /\ exitCode' = 0
        /\ dispatchCalls' = dispatchCalls
        /\ executed' = executed
C10_ExitedStep ==
    pc = "exited" =>
        /\ pc' = "exited"
        /\ dispatchCalls' = dispatchCalls
        /\ executed' = executed
C10_CancelledIsTerminal == [][C10_CancelStep /\ C10_ExitedStep]_vars

C10_Witness ==
    /\ LoopCancelled
    /\ currentResult.kind = "ok"
    /\ executed = <<>>

\* C11: the recovery prompt of generateUntilSuccess offers retry and
\* edit-prompt after any number of consecutive failures; a retry goes back to
\* Generating with the same request, where the next attempt can be made; the
\* loop is left only by a validated result or by the operator's cancel.
C11_Offered ==
    (entry = "part_002" /\ pc = "failed")
        => /\ {"retry", "edit-prompt"} \subseteq offered
           /\ loopFails = loopCalls
C11_Step ==
    entry = "part_002" =>
        /\ (pc = "generating" /\ lastEvent' = "dispatch" /\ lastOutcome'.kind # "ok")
              => pc' = "failed" /\ loopFails' = loopFails + 1
        /\ (pc = "failed" /\ lastEvent' = "retry")
              => pc' = "generating" /\ loopRequest' = loopRequest
        /\ (pc = "recoveryEdit" /\ lastEvent' = "edit-submit")
              => pc' = "generating"
        /\ (InLoop /\ ~InLoop')
              => \/ /\ pc = "generating"
                    /\ pc' = "menu"
                    /\ lastOutcome'.kind = "ok"
                 \/ /\ pc \in {"failed", "recoveryEdit"}
                    /\ pc' = "exited"
                    /\ lastEvent' \in {"cancel", "abort"}
C11_NoRetryBound ==
    /\ []C11_Offered
    /\ [][C11_Step]_vars

\* as many consecutive failures as the model allows calls, each attempt after
\* the first made on the operator's choice, and the choices are offered again
C11_Witness ==
    /\ entry = "part_002"
    /\ pc = "failed"
    /\ lastEvent = "dispatch"
    /\ loopFails = MaxDispatch
    /\ loopChoices = MaxDispatch - 1
    /\ {"retry", "edit-prompt"} \subseteq offered

\* C12: a cancel choice or an aborted prompt, at whichever prompt of a
\* conversion it is given, ends the process at once with status 0: nothing is
\* spawned, no file is removed or created, nothing is copied, no call of
\* generate is made, the stored configuration and the in-memory one stay as
\* they are, and the current result and request are the ones from before.
C12_CancelStep ==
    (pc # "exited" /\ lastEvent' \in {"cancel", "abort"}) =>
        /\ pc \in {"failed", "recoveryEdit", "menu", "menuEditPrompt",
                   "menuEditCommands", "cleanup"}
        /\ pc' = "exited"
        /\ exitCode' = 0
        /\ executed' = executed
        /\ fs' = fs
        /\ copied' = copied
        /\ stored' = stored
        /\ config' = config
        /\ currentResult' = currentResult
        /\ userRequest' = userRequest
        /\ dispatchCalls' = dispatchCalls
C12_CancelWithoutSideEffects == [][C12_CancelStep]_vars

\* the operator edited the commands once, then aborted a later prompt
C12_Witness ==
    /\ pc = "exited"
    /\ lastEvent = "abort"
    /\ exitCode = 0
    /\ editCount = 1
    /\ currentResult.commands = <<"c3">>
    /\ executed = <<>>
    /\ fs = {"in.mp4"}

\* C13: a command string is spawned only by the step the operator's Run all
\* choice at the action menu starts: the menu is open with Run all among its
\* options, the panels on the terminal show the very commands of the current
\* result, and what is spawned is a leading part of those commands, in order.
\* No other step (generation, retry, either edit, copy, cancel) spawns.
C13_SpawnStep ==
    executed' # executed =>
        /\ pc = "menu"
        /\ "run" \in offered
        /\ lastEvent' = "run"
        /\ shown.kind = "panels"
        /\ shown.commands = currentResult.commands
        /\ \E n \in 1..Len(currentResult.commands) :
              executed' = executed \o SubSeq(currentResult.commands, 1, n)
C13_NoExecutionWithoutConfirmation ==
    /\ [](executed # <<>> => pc \in {"cleanup", "exited"})
    /\ [][C13_SpawnStep]_vars

\* Run all after a command edit: the edited command was shown, then spawned
C13_Witness ==
    /\ lastEvent = "run"
    /\ executed = <<"c3">>
    /\ shown.kind = "panels"
    /\ shown.commands = <<"c3">>
    /\ editCount = 1

\* C14: runCommands spawns the commands in list order, never two at a time;
\* every exit but the last one seen is 0, so nothing is spawned after a
\* failing command; it returns true exactly when every command of the list
\* has exited 0, and false on the first exit that is not 0.
RunAllZero == \A i \in 1..Len(rexits) : rexits[i] = 0
C14_InOrder ==
    /\ Len(rlog) <= Len(rcommands)
    /\ rlog = SubSeq(rcommands, 1, Len(rlog))
C14_OneAtATime ==
    /\ Cardinality(rlive) <= 1
    /\ rlive = (IF rpc = "await" THEN {Len(rlog)} ELSE {})
    /\ Len(rlog) = Len(rexits) + Cardinality(rlive)
C14_StopsOnFailure ==
    /\ \A i \in 1..(Len(rexits) - 1) : rexits[i] = 0
    /\ ~RunAllZero => (rpc = "returned" /\ Len(rlog) = Len(rexits))
C14_Returns ==
    /\ rpc = "returned" =>
          /\ rret \in {"true", "false"}
          /\ rret = "true" <=> (RunAllZero /\ Len(rexits) = Len(rcommands))
          /\ rret = "false" <=> ~RunAllZero
          /\ rlog = spawned(rcommands, IF RunAllZero THEN Len(rexits) ELSE Len(rexits) - 1)
    /\ rpc # "returned" => rret = "none"
C14_SequentialHaltOnFailure ==
    rpc # "off" =>
        /\ C14_InOrder
        /\ C14_OneAtATime
        /\ C14_StopsOnFailure
        /\ C14_Returns

\* three commands: the first exits 0, the second is ended by a signal, the
\* third is never spawned
C14_Witness ==
    /\ rpc = "returned"
    /\ Len(rcommands) = 3
    /\ rexits = <<0, -1>>
    /\ rlog = SubSeq(rcommands, 1, 2)
    /\ rret = "false"

\* all three commands ran and runCommands returned true
C14_WitnessAll ==
    /\ rpc = "returned"
    /\ rexits = <<0, 0, 0>>
    /\ rlog = rcommands
    /\ rret = "true"

\* C15: when getConfig finds nothing and no --provider is given, or the
\* provider selected (by the flag, else by the stored configuration) is
\* cloudflare and the stored configuration holds no credentials, main prints
\* the error and exits 1: no probe has run, generate was never called, no
\* prompt was opened, nothing was spawned.
C15_NoProvider == stored = ConfigNull /\ providerOverride = "none"
C15_Selected ==
    IF providerOverride # "none" THEN providerOverride ELSE stored.defaultProvider
C15_NoCredentials == C15_Selected = "cloudflare" /\ ~stored.cloudflare
C15_ConfigErrorStopsAtStart ==
    (pc # "main" /\ (C15_NoProvider \/ C15_NoCredentials)) =>
        /\ pc = "exited"
        /\ exitCode = 1
        /\ lastEvent = "main"
        /\ shown.kind = "error"
        /\ shown.message = (IF C15_NoProvider THEN "No provider configured"
                            ELSE "Cloudflare credentials missing")
        /\ cached = Undefined
        /\ detectCalls = 0
        /\ dispatchCalls = 0
        /\ backendCalls = 0
        /\ offered = {}
        /\ executed = <<>>

\* nothing stored, no flag
C15_Witness ==
    /\ C15_NoProvider
    /\ pc = "exited"
    /\ exitCode = 1
    /\ shown = [kind |-> "error", message |-> "No provider configured"]

\* C16: every call of generate is made with a configuration that either
\* selects the local agent or selects cloudflare and holds credentials: main
\* has refused every other configuration, also the one a --provider cloudflare
\* makes of a stored local-agent configuration; so generate never throws its
\* own credentials error and each call reaches exactly one backend.
C16_ConfigChecked ==
    pc \notin {"main", "exited"} =>
        /\ config = applyOverride(stored, providerOverride)
        /\ config.defaultProvider \in {"cloudflare", "claude"}
        /\ config.defaultProvider = "cloudflare" => config.cloudflare
C16_DispatchStep ==
    dispatchCalls' # dispatchCalls =>
        /\ config.defaultProvider = "cloudflare" => config.cloudflare
        /\ lastOutcome' # Error("Cloudflare credentials not configured")
        /\ backendCalls' = backendCalls + 1
C16_CredentialsAtDispatch ==
    /\ []C16_ConfigChecked
    /\ [][C16_DispatchStep]_vars

\* a dispatch on the remote path selected by the flag, and the refusal of the
\* flag on a stored local-agent configuration
C16_Witness ==
    /\ lastEvent = "dispatch"
    /\ providerOverride = "cloudflare"
    /\ config.defaultProvider = "cloudflare"
    /\ config.cloudflare
C16_WitnessRefused ==
    /\ stored = [defaultProvider |-> "claude", cloudflare |-> FALSE]
    /\ providerOverride = "cloudflare"
    /\ pc = "exited"
    /\ exitCode = 1
    /\ dispatchCalls = 0

\* C17: on the remote path a response whose status is not a success makes
\* generate throw an ordinary Error, not a ValidationError: one request was
\* made, no body was validated (the error carries no raw text), and the
\* dispatcher made no second request.
C17_RemoteFailure ==
    /\ lastEvent = "dispatch"
    /\ config.defaultProvider = "cloudflare"
    /\ lastReply.k = "fail"
C17_FailureState ==
    C17_RemoteFailure =>
        /\ lastOutcome = Error("Cloudflare API error")
        /\ lastOutcome.kind \notin {"ValidationError", "ok", "TypeError"}
        /\ shown = [kind |-> "message", text |-> "Cloudflare API error"]
        /\ backendCalls = dispatchCalls
C17_FailureStep ==
    (dispatchCalls' # dispatchCalls /\ lastReply'.k = "fail") =>
        /\ backendCalls' = backendCalls + 1
        /\ lastOutcome'.kind = "Error"
C17_BackendFailuresArePlainErrors ==
    /\ []C17_FailureState
    /\ [][C17_FailureStep]_vars

\* a non-success status on the remote path, in the recovery-loop revision
C17_Witness ==
    /\ C17_RemoteFailure
    /\ entry = "part_002"
    /\ pc = "failed"
    /\ lastOutcome.kind = "Error"

\* C18: one reply text taken through the post-processing of the remote path
\* (the text as it is) and of the local-agent path (the text trimmed), each
\* ending in validateResponse: when the reply is valid, that is when its
\* cleaned text parses to an object of the required shape, both succeed with
\* the same commands and explanation; neither path succeeds alone.
C18_ValidReply ==
    /\ JSONparse(clean(vraw)).ok
    /\ RequiredShape(JSONparse(clean(vraw)).value)
C18_DispatcherParity ==
    vstage = "dispatched" =>
        /\ C18_ValidReply =>
              /\ vremote.kind = "ok"
              /\ vlocal.kind = "ok"
              /\ vremote.commands = vlocal.commands
              /\ vremote.explanation = vlocal.explanation
        /\ (vremote.kind = "ok" \/ vlocal.kind = "ok") => vremote = vlocal

\* a valid reply with whitespace and a fence around it: the local path trims
\* before validating, the remote path does not
C18_Witness ==
    /\ vstage = "dispatched"
    /\ C18_ValidReply
    /\ trim(vraw) # vraw
    /\ clean(vraw) # trim(vraw)
    /\ vremote.kind = "ok"
    /\ vlocal = vremote

\* C19: every result generate returns, on either backend, is what
\* validateResponse makes of the reply text of that very call; the current
\* result of the conversion changes only to such a result or, on a command
\* edit, to the operator's own lines with the validated explanation kept; the
\* panels shown and the commands spawned or copied are those of the current
\* result.
C19_DispatchStep ==
    (dispatchCalls' # dispatchCalls /\ lastOutcome'.kind = "ok") =>
        /\ lastReply'.k = "text"
        /\ lastOutcome' = validateResponse(lastReply'.text)
        /\ currentResult' = lastOutcome'
        /\ shown' = [kind |-> "panels", commands |-> lastOutcome'.commands,
                     explanation |-> lastOutcome'.explanation]
C19_ResultStep ==
    currentResult' # currentResult =>
        \/ /\ lastEvent' = "dispatch"
           /\ currentResult' = validateResponse(lastReply'.text)
        \/ /\ lastEvent' = "edit-commands-submit"
           /\ currentResult # NoResult
           /\ currentResult'.explanation = currentResult.explanation
C19_UseStep ==
    /\ (shown' # shown /\ shown'.kind = "panels")
          => shown'.commands = currentResult'.commands
    /\ copied' # copied => copied' = currentResult.commands
    /\ executed' # executed
          => \E n \in 1..Len(currentResult.commands) :
                executed' = executed \o SubSeq(currentResult.commands, 1, n)
C19_SingleChokePoint ==
    [][C19_DispatchStep /\ C19_ResultStep /\ C19_UseStep]_vars

\* a fenced reply validated on the remote path, then run
C19_Witness ==
    /\ config.defaultProvider = "cloudflare"
    /\ lastReply = [k |-> "text", text |-> TextValid]
    /\ currentResult = validateResponse(TextValid)
    /\ executed = currentResult.commands
    /\ lastEvent = "run"

\* C20: whatever each probe process meets (the spawn throws, reading its
\* output fails, it writes nothing, only blank lines, or any lines),
\* detectContext does not raise and returns a snapshot with the ffmpeg entry
\* and the magick entry, each with all of its fields; a tool is reported
\* installed exactly when its version run gave a non-empty trimmed output,
\* and a tool not installed has every capability list empty.
C20_FfmpegFields ==
    {"installed", "version", "codecs", "filters", "bitstreamFilters", "formats"}
C20_MagickFields == {"installed", "version", "formats"}
C20_IsList(l) == DOMAIN l = 1..Len(l)
C20_Answered(o) == o.k = "output" /\ trimLines(o.text) # <<>>
C20_Complete(snapshot) ==
    /\ DOMAIN snapshot = {"ffmpeg", "magick"}
    /\ DOMAIN snapshot.ffmpeg = C20_FfmpegFields
    /\ DOMAIN snapshot.magick = C20_MagickFields
    /\ snapshot.ffmpeg.installed \in BOOLEAN
    /\ snapshot.magick.installed \in BOOLEAN
    /\ \A f \in FfmpegLists : C20_IsList(snapshot.ffmpeg[f])
    /\ C20_IsList(snapshot.magick.formats)
C20_ProberTotality ==
    /\ ppc # "raised"
    /\ pffmpeg.st # "raised"
    /\ pmagick.st # "raised"
    /\ ppc = "returned" =>
          /\ C20_Complete(cached)
          /\ cached.ffmpeg.installed <=> C20_Answered(pver.ffmpeg)
          /\ cached.magick.installed <=> C20_Answered(pver.magick)
          /\ ~cached.ffmpeg.installed => \A f \in FfmpegLists : cached.ffmpeg[f] = <<>>
          /\ ~cached.magick.installed => cached.magick.formats = <<>>

\* ffmpeg's version run could not be read, magick answered without a version
\* banner and listed a format
C20_Witness ==
    /\ ppc = "returned"
    /\ pver.ffmpeg = Failure("read-rejects")
    /\ ~cached.ffmpeg.installed
    /\ pver.magick = Output(<<Junk>>)
    /\ cached.magick.installed
    /\ cached.magick.version = "undefined"
    /\ cached.magick.formats = <<"n1">>

\* ffmpeg is installed but every list run failed: complete, with empty lists
C20_WitnessInstalledEmpty ==
    /\ ppc = "returned"
    /\ cached.ffmpeg.installed
    /\ \A f \in FfmpegLists : cached.ffmpeg[f] = <<>>
    /\ pver.magick = Failure("spawn-throws")

\* ------------------------------------------------------------------------
\* Properties of the capability cache and of the probe fan-out
\* ------------------------------------------------------------------------
\* C21: once a detectContext call has returned, every later call returns the
\* snapshot the first one returned and spawns no probe process, also when
\* that snapshot reports neither tool installed.
C21_LaterCall ==
    (ppc = "returned" /\ pcalls' = pcalls + 1) =>
        /\ ppc' = "returned"
        /\ pret' = pret
        /\ cached' = cached
        /\ pspawns' = pspawns
        /\ pflight' = {}
C21_CapabilityMemoization == [][C21_LaterCall]_vars

\* the first call found neither tool; two more calls were answered from the
\* cache, the two version runs of the first call being all that was spawned
C21_Witness ==
    /\ ppc = "returned"
    /\ pcalls = 3
    /\ pspawns = 2
    /\ ~cached.ffmpeg.installed
    /\ ~cached.magick.installed
    /\ pret = cached

\* C22 (as stated): the two probes run concurrently and are joined before the
\* snapshot is ready, and inside the transcoder probe the version run and the
\* list runs run concurrently with each other: while the version run of
\* ffmpeg is outstanding its list runs are outstanding too.
C22_FfmpegListCmds == {Cmd("ffmpeg", l) : l \in FfmpegLists}
C22_Joined ==
    ppc = "returned" =>
        /\ pffmpeg.st = "done"
        /\ pmagick.st = "done"
        /\ pflight = {}
C22_SubProbesConcurrent ==
    /\ C22_Joined
    /\ Cmd("ffmpeg", "version") \in pflight => C22_FfmpegListCmds \subseteq pflight

\* C22 (amended): both probes are started by the call and run concurrently,
\* neither waiting for the other; inside the transcoder probe the version run
\* completes first and no list run is outstanding with it; once it gave a
\* non-empty output the list runs are started together; the transcoder entry
\* is produced when no run of ffmpeg is outstanding, and the snapshot when no
\* run at all is.
C22_Started ==
    (ppc = "probing" /\ pffmpeg.st = "none" /\ pmagick.st = "none") =>
        pflight = {Cmd("ffmpeg", "version"), Cmd("magick", "version")}
C22_Independent ==
    ppc = "probing" =>
        /\ Cmd("ffmpeg", "version") \in pflight <=> pffmpeg.st = "none"
        /\ Cmd("magick", "version") \in pflight <=> pmagick.st = "none"
        /\ Cmd("magick", "formats") \in pflight <=> pmagick.st = "running"
        /\ pffmpeg.st = "running" =>
              pflight \cap C22_FfmpegListCmds = {Cmd("ffmpeg", l) : l \in ppending}
C22_VersionFirst ==
    Cmd("ffmpeg", "version") \in pflight => pflight \cap C22_FfmpegListCmds = {}
C22_EntryAfterRuns ==
    pffmpeg.st = "done" =>
        pflight \cap (C22_FfmpegListCmds \cup {Cmd("ffmpeg", "version")}) = {}
C22_ListsTogether ==
    (pffmpeg.st = "none" /\ pffmpeg'.st = "running") =>
        C22_FfmpegListCmds \subseteq pflight'
C22_ProbeFanOut ==
    /\ [](C22_Started /\ C22_Independent /\ C22_VersionFirst
            /\ C22_EntryAfterRuns /\ C22_Joined)
    /\ [][C22_ListsTogether]_vars

\* two list runs of ffmpeg and the list run of magick are outstanding together
C22_Witness ==
    /\ ppc = "probing"
    /\ pflight = {Cmd("ffmpeg", "filters"), Cmd("ffmpeg", "formats"),
                  Cmd("magick", "formats")}

\* the snapshot of a call whose seven runs all completed
C22_WitnessJoined ==
    /\ ppc = "returned"
    /\ pspawns = 7
    /\ pflight = {}
    /\ cached.ffmpeg.installed
    /\ cached.magick.installed

\* C23: while the probes run, a step of one probe changes neither the other
\* probe's result nor the cache; the cache is assigned once, in the step
\* that follows the completion of both probes, and whenever it holds a
\* snapshot, that snapshot has the finished entry of each of the two tools.
C23_OwnSlot ==
    (ppc = "probing" /\ ppc' = "probing") =>
        /\ cached' = cached
        /\ pffmpeg' = pffmpeg \/ pmagick' = pmagick
        /\ pmagick' # pmagick => ppending' = ppending
C23_AssignedOnce ==
    /\ cached # Undefined => cached' = cached
    /\ cached' # cached =>
          /\ pffmpeg.st = "done"
          /\ pmagick.st = "done"
          /\ pflight = {}
C23_Whole ==
    cached # Undefined =>
        /\ DOMAIN cached = {"ffmpeg", "magick"}
        /\ pffmpeg.st = "done"
        /\ pmagick.st = "done"
        /\ cached.ffmpeg = pffmpeg.r
        /\ cached.magick = pmagick.r
C23_NoSharedProbeState ==
    /\ []C23_Whole
    /\ [][C23_OwnSlot /\ C23_AssignedOnce]_vars

\* the transcoder probe has finished with its lists while the image-tool
\* probe still awaits its list run: the cache is still empty
C23_WitnessOneDone ==
    /\ ppc = "probing"
    /\ pffmpeg.st = "done"
    /\ pffmpeg.r.codecs = <<"n1">>
    /\ pmagick.st = "running"
    /\ cached = Undefined

\* the snapshot after both: each tool's entry with what its own runs gave
C23_Witness ==
    /\ ppc = "returned"
    /\ cached.ffmpeg.installed
    /\ cached.ffmpeg.bitstreamFilters = <<"n1">>
    /\ cached.magick.installed
    /\ cached.magick.formats = <<"n1", "n1">>

\* ------------------------------------------------------------------------
\* Properties of the configuration store
\* ------------------------------------------------------------------------
\* C24: the cache of getConfig is Unloaded (undefined), Absent (null) or
\* Present (a configuration); once a getConfig call has completed the cache
\* is Absent or Present and holds what the call returned, and every later
\* call of the process returns that same value, null included, without
\* reading the environment variable or the secret store again, whatever the
\* secret store holds by then.
C24_Completed == cpc = "conversion" /\ cgets >= 1
C24_States ==
    /\ ccache \in {Undefined, ConfigNull, ConfigClaude, ConfigCloudflare}
    /\ C24_Completed =>
          /\ ccache # Undefined
          /\ cret = ccache
          /\ cenvReads = 1
          /\ csecretReads <= 1
C24_LaterCall ==
    (C24_Completed /\ cgets' = cgets + 1) =>
        /\ cret' = cret
        /\ ccache' = ccache
        /\ cenvReads' = cenvReads
        /\ csecretReads' = csecretReads
C24_ThreeStateCache == []C24_States /\ [][C24_LaterCall]_vars

\* nothing was found by the first call; the store has a configuration by the
\* time of the third, which still returns null from the one read of each
C24_Witness ==
    /\ cpc = "conversion"
    /\ cgets = 3
    /\ ccache = ConfigNull
    /\ cret = ConfigNull
    /\ csecret = Json(ConfigCloudflare)
    /\ cenvReads = 1
    /\ csecretReads = 1

\* a configuration was found by the first call and is returned by the third
\* after the store's entry was removed
C24_WitnessPresent ==
    /\ cpc = "conversion"
    /\ cgets = 3
    /\ cenv = Unset
    /\ cret = ConfigCloudflare
    /\ csecret = Unset

\* ------------------------------------------------------------------------
\* Properties of the system prompt
\* ------------------------------------------------------------------------
\* C25: for every snapshot, the prompt buildSystemPrompt returns opens with
\* the heading of the environment section, has the "## Rules" heading exactly
\* once and after every line that reports a tool or a capability, and from
\* that heading to its last line holds only the rules (the JSON shape
\* contract among them, the closing IMPORTANT line last).
C25_EnvHeadings == {"## Available Tools", "## Environment"}
C25_MissingLines ==
    {"FFmpeg: NOT installed - do not generate ffmpeg commands",
     "magick: NOT installed - do not generate magick commands",
     "ffmpeg: not installed", "magick: not installed"}
C25_ReportsTool(l) ==
    \/ l.items # <<>>
    \/ l.line \in C25_MissingLines
    \/ l.line \in C25_EnvHeadings
C25_RulesFrom(r) ==
    /\ qsys[r].line = "## Rules"
    /\ \A i \in 1..Len(qsys) : qsys[i].line = "## Rules" => i = r
    /\ \A i \in 1..Len(qsys) : C25_ReportsTool(qsys[i]) => i < r
    /\ \E i \in (r + 1)..Len(qsys) :
          qsys[i].line = "Return ONLY valid JSON in this exact shape"
    /\ qsys[Len(qsys)].line = "IMPORTANT: Reply with ONLY the JSON object"
C25_PromptSectionOrder ==
    qpc = "built" =>
        /\ qsys[1].line \in C25_EnvHeadings
        /\ \E i \in 2..Len(qsys) : C25_ReportsTool(qsys[i])
        /\ \E r \in 3..Len(qsys) : C25_RulesFrom(r)

\* the prompt of a machine with both tools: eight environment lines, the
\* empty line, then the rules
C25_Witness ==
    /\ qpc = "built"
    /\ qrev = "current"
    /\ qctx.ffmpeg.installed
    /\ qctx.ffmpeg.codecs = <<"n1", "n2">>
    /\ qctx.magick.installed
    /\ qsys[10].line = "## Rules"
    /\ Len(qsys) = 20

\* the same for the older revision, neither tool installed
C25_WitnessLegacy ==
    /\ qpc = "built"
    /\ qrev = "legacy"
    /\ ~qctx.ffmpeg.installed
    /\ ~qctx.magick.installed
    /\ qsys[5].line = "## Rules"

\* C26: for every snapshot and each of the two tools: when the tool is not
\* installed the prompt reports it in one line and lists nothing for it, and
\* it holds the instruction not to use it (in the line itself; in the older
\* revision, the line "not installed" together with the rule "Only use tools
\* that are listed as installed above"); when the tool is installed its line
\* is followed by one line per capability list of the snapshot, holding the
\* detected names of that list.
C26_Labels(tool) ==
    IF tool = "ffmpeg"
    THEN IF qrev = "legacy"
         THEN <<"| encoders", "| decoders">>
         ELSE <<"  Codecs", "  Filters", "  Bitstream filters", "  Formats">>
    ELSE IF qrev = "legacy" THEN <<"| formats">> ELSE <<"  Formats">>
C26_Fields(tool) ==
    IF tool = "ffmpeg"
    THEN IF qrev = "legacy"
         THEN <<"encoders", "decoders">>
         ELSE <<"codecs", "filters", "bitstreamFilters", "formats">>
    ELSE <<"formats">>
C26_DoNotUse(tool) ==
    IF tool = "ffmpeg"
    THEN "FFmpeg: NOT installed - do not generate ffmpeg commands"
    ELSE "magick: NOT installed - do not generate magick commands"
C26_Marked(tool) ==
    IF tool = "ffmpeg" THEN "ffmpeg: not installed" ELSE "magick: not installed"
C26_Elements(list) == {list[i] : i \in 1..Len(list)}
\* the lines of the prompt about a tool: ffmpeg's start at line 2, magick's
\* end before the empty line that closes the environment section
C26_MagickStart ==
    CHOOSE i \in 2..Len(qsys) :
        qsys[i].line \in {"magick", C26_DoNotUse("magick"), C26_Marked("magick")}
C26_EnvironmentEnd == CHOOSE i \in 1..Len(qsys) : qsys[i].line = ""
C26_Segment(tool) ==
    IF tool = "ffmpeg"
    THEN SubSeq(qsys, 2, C26_MagickStart - 1)
    ELSE SubSeq(qsys, C26_MagickStart, C26_EnvironmentEnd - 1)
C26_Instructed(tool, segment) ==
    \/ segment = <<Line(C26_DoNotUse(tool), <<>>)>>
    \/ /\ segment = <<Line(C26_Marked(tool), <<>>)>>
       /\ \E j \in (C26_EnvironmentEnd + 1)..Len(qsys) :
             qsys[j].line = "- Only use tools that are listed as installed above"
C26_Listed(tool, segment) ==
    /\ Len(segment) = 1 + Len(C26_Fields(tool))
    /\ segment[1].line \in {"FFmpeg", "ffmpeg", "magick"}
    /\ \A k \in 1..Len(C26_Fields(tool)) :
          /\ segment[k + 1].line = C26_Labels(tool)[k]
          /\ C26_Elements(segment[k + 1].items) \ {"none"}
                = C26_Elements(qctx[tool][C26_Fields(tool)[k]])
C26_ProbeDegradationInPrompt ==
    qpc = "built" =>
        \A tool \in Tools :
            IF qctx[tool].installed
            THEN C26_Listed(tool, C26_Segment(tool))
            ELSE C26_Instructed(tool, C26_Segment(tool))

\* ffmpeg is missing and magick is installed with two formats
C26_Witness ==
    /\ qpc = "built"
    /\ qrev = "current"
    /\ ~qctx.ffmpeg.installed
    /\ qctx.magick.installed
    /\ qctx.magick.formats = <<"n1", "n2">>
    /\ qsys[2] = Line(C26_DoNotUse("ffmpeg"), <<>>)
    /\ qsys[4] = Line("  Formats", <<"n1", "n2">>)

\* the older revision with magick missing and ffmpeg installed
C26_WitnessLegacy ==
    /\ qpc = "built"
    /\ qrev = "legacy"
    /\ qctx.ffmpeg.installed
    /\ qctx.ffmpeg.encoders = <<"n1">>
    /\ ~qctx.magick.installed
    /\ qsys[5] = Line("magick: not installed", <<>>)

\* C27: in a conversion process the in-memory configuration is the loaded
\* one with only its provider replaced by the --provider value: the loaded
\* credentials and the cache of getConfig stay as loaded; no step of the
\* process writes the secret store; and what a process loads comes from its
\* environment variable or the store, so a process started without the flag
\* runs with the stored provider whatever flag the process before it had.
C27_InMemoryOnly ==
    cconfig # Undefined =>
        /\ cconfig.defaultProvider =
              (IF cov # "none" THEN cov ELSE cret.defaultProvider)
        /\ cconfig.cloudflare = cret.cloudflare
        /\ ccache = cret
        /\ cov = "none" => cconfig = cret
C27_ProcessStep ==
    (cpc = "conversion" /\ (cgets' # cgets \/ cpc' # cpc)) =>
        /\ csecret' = csecret
        /\ cwrites' = cwrites
        /\ cgets >= 1 => ccache' = ccache
C27_Loads ==
    (cpc = "conversion" /\ cgets = 0 /\ cgets' = 1) =>
        IF cenv.k = "json"
        THEN cret' = cenv.v
        ELSE cret' \in {ConfigNull} \cup (IF csecret.k = "json" THEN {csecret.v} ELSE {})
C27_OverrideOneInvocation ==
    []C27_InMemoryOnly /\ [][C27_ProcessStep /\ C27_Loads]_vars

\* the process before ran with --provider claude and spawned the agent; this
\* one, without the flag, runs with the stored remote configuration, which
\* no process has written
C27_Witness ==
    /\ cinv = 2
    /\ cprev = "claude"
    /\ cov = "none"
    /\ cenv = Unset
    /\ cpc = "generated"
    /\ csecret = Json(ConfigCloudflare)
    /\ cconfig = ConfigCloudflare
    /\ cwrites = 0
    /\ cspawns = 1

\* the flag on a stored remote configuration: the credentials stay
C27_WitnessCredentials ==
    /\ cpc = "generated"
    /\ cov = "claude"
    /\ cret = ConfigCloudflare
    /\ cconfig = [defaultProvider |-> "claude", cloudflare |-> TRUE]

\* C28: a step removes a file only when the cleanup prompt is open and the
\* operator answers yes, and it removes only files the prompt listed; at
\* that prompt the answers no, Enter (the initial value) and an abort leave
\* every file in place.
C28_RemovalStep ==
    ~(fs \subseteq fs') =>
        /\ pc = "cleanup"
        /\ lastEvent' = "yes"
        /\ (fs \ fs') \subseteq cleanupFiles
C28_DeclinedStep ==
    (pc = "cleanup" /\ lastEvent' \in {"no", "default", "abort"}) => fs' = fs
C28_NoDeletionWithoutConfirmation == [][C28_RemovalStep /\ C28_DeclinedStep]_vars

\* the original was removed after a yes at the cleanup prompt
C28_Witness ==
    /\ pc = "exited"
    /\ lastEvent = "yes"
    /\ executed # <<>>
    /\ "in.mp4" \notin fs

\* Enter at the cleanup prompt: the original is still there
C28_WitnessDefault ==
    /\ pc = "exited"
    /\ lastEvent = "default"
    /\ cleanupFiles = {"in.mp4"}
    /\ "in.mp4" \in fs

\* C29: when the operator chooses Run all and the commands name at least one
\* media file, the run is followed by the cleanup prompt, whether every
\* command exited 0 or the series stopped on a failing command.
C29_RunStep ==
    (entry = "part_002" /\ pc = "menu" /\ lastEvent' = "run"
        /\ inferInputFiles(currentResult.commands) # {}) =>
        pc' = "cleanup"
C29_CleanupOfferedAfterRun == [][C29_RunStep]_vars

\* C30: setup runs `which claude` when the local agent is selected; when it
\* fails the process exits with status 1 and neither the store nor the cache
\* of getConfig is written; a step of setConfig stores the local-agent
\* configuration only in the setup process whose `which claude` succeeded;
\* a conversion process never runs that check, and its generate spawns the
\* agent whenever the provider is the local agent, present or not: with the
\* binary missing the spawn fails and generate throws.
C30_SetupRefusesStep ==
    (cwhich = "none" /\ cwhich' = "1") =>
        /\ cpc = "setup"
        /\ ~cagent
        /\ cpc' = "shell"
        /\ cexit' = 1
        /\ csecret' = csecret
        /\ ccache' = ccache
        /\ cwrites' = cwrites
C30_SaveStep ==
    (cwrites' # cwrites /\ csecret' = Json(ConfigClaude)) =>
        /\ cpc = "setup"
        /\ cagent
        /\ cwhich' = "0"
C30_GenerateStep ==
    (cpc = "conversion" /\ cconfig' # cconfig /\ configError(cconfig') = "none"
        /\ cconfig'.defaultProvider = "claude") =>
        /\ cwhich' = "none"
        /\ cspawns' = cspawns + 1
        /\ ~cagent => cout' = Error("spawn failed")
C30_NoCheckInConversion ==
    cpc \in {"conversion", "generated"} => cwhich = "none"
C30_AgentPresenceCheckedAtSetup ==
    /\ []C30_NoCheckInConversion
    /\ [][C30_SetupRefusesStep /\ C30_SaveStep /\ C30_GenerateStep]_vars

\* setup refused the local agent: nothing saved, exit 1
C30_WitnessRefused ==
    /\ cpc = "shell"
    /\ cinv = 1
    /\ cwhich = "1"
    /\ cexit = 1
    /\ cwrites = 0
    /\ csecret = Unset

\* setup saved the local agent while it was installed; the agent was then
\* removed, and the next process, a conversion, spawned it all the same
C30_Witness ==
    /\ cinv = 2
    /\ cpc = "generated"
    /\ cwrites = 1
    /\ csecret = Json(ConfigClaude)
    /\ cconfig = ConfigClaude
    /\ ~cagent
    /\ cspawns = 1
    /\ cout = Error("spawn failed")

\* ------------------------------------------------------------------------
\* C31: in the action loop of part_002 a generation that succeeds (after
\* Retry or Edit prompt as after the start) makes the validated result of
\* that dispatch the current result, whole; a command edit makes no call of
\* generate and changes the commands alone, to the non-blank lines of the
\* submitted text, trimmed and in order: explanation and request text stay.
\* ------------------------------------------------------------------------
RECURSIVE C31_Lines(_)
C31_Lines(edited) ==
    IF edited = <<>>
    THEN <<>>
    ELSE (IF Head(edited).text = "" THEN <<>> ELSE <<Head(edited).text>>)
             \o C31_Lines(Tail(edited))

C31_ReplaceStep ==
    (entry = "part_002" /\ pc = "generating" /\ pc' = "menu") =>
        /\ dispatchCalls' = dispatchCalls + 1
        /\ lastOutcome' = generate(config, lastReply')
        /\ lastOutcome'.kind = "ok"
        /\ currentResult' = lastOutcome'

C31_EditStep ==
    (pc = "menuEditCommands" /\ pc' = "menu") =>
        /\ \E edited \in EditedTexts : currentResult'.commands = C31_Lines(edited)
        /\ currentResult' = [currentResult EXCEPT !.commands = currentResult'.commands]
        /\ currentResult'.explanation = currentResult.explanation
        /\ userRequest' = userRequest
        /\ loopRequest' = loopRequest
        /\ dispatchCalls' = dispatchCalls
        /\ backendCalls' = backendCalls
        /\ lastCall' = lastCall

C31_OtherStep ==
    (pc \notin {"generating", "menuEditCommands"}) => currentResult' = currentResult

C31_ResultLifecycle ==
    [][C31_ReplaceStep /\ C31_EditStep /\ C31_OtherStep]_vars

\* the operator edited the commands, with a blank line in the text, then
\* chose Retry: the result of the retry replaced the edited one
C31_Witness ==
    /\ entry = "part_002"
    /\ pc = "menu"
    /\ editCount = 1
    /\ dispatchCalls = 2
    /\ lastEvent = "dispatch"
    /\ currentResult = lastOutcome
    /\ currentResult.commands = <<"c1", "c2">>

\* right after a command edit: the commands are the operator's, the
\* explanation is still the generated one
C31_WitnessEdited ==
    /\ pc = "menu"
    /\ lastEvent = "edit-commands-submit"
    /\ currentResult.commands = <<"c3">>
    /\ lastOutcome.commands = <<"c1", "c2">>
    /\ currentResult.explanation = lastOutcome.explanation
    /\ dispatchCalls = 1

\* ------------------------------------------------------------------------
\* C32: the request text is carried through the recovery prompt and the
\* action menu: the request a loop is about to send, and the one the menu
\* holds, is the text the operator submitted last (the initial request until
\* an edit is submitted); every call of generate carries it; Retry, in the
\* recovery prompt as in the menu, leaves it as it is.
\* ------------------------------------------------------------------------
C32_Carried ==
    /\ pc \in {"generating", "failed", "recoveryEdit"} => loopRequest = submitted
    /\ (entry = "part_002" /\ pc \in {"menu", "menuEditPrompt", "menuEditCommands"}) =>
           userRequest = submitted

C32_DispatchStep ==
    dispatchCalls' # dispatchCalls => lastCall'.user = buildUserPrompt(submitted)

C32_RetryStep ==
    lastEvent' = "retry" =>
        /\ submitted' = submitted
        /\ userRequest' = userRequest
        /\ pc' = "generating"
        /\ loopRequest' = submitted

C32_EditStep ==
    lastEvent' = "edit-submit" =>
        /\ submitted' \in ReqTexts
        /\ pc' = "generating"
        /\ loopRequest' = submitted'

C32_RequestCarriedAcrossLoop ==
    /\ []C32_Carried
    /\ [][C32_DispatchStep /\ C32_RetryStep /\ C32_EditStep]_vars

\* the request was edited, a result came back, and the operator chose Retry
\* in the menu: the loop that starts holds the edited text
C32_Witness ==
    /\ pc = "generating"
    /\ lastEvent = "retry"
    /\ loopCalls = 0
    /\ dispatchCalls = 2
    /\ submitted = "r1"
    /\ loopRequest = "r1"
    /\ lastOutcome.kind = "ok"

\* an edit in the recovery prompt, a failure, Retry there, and the call
\* that follows carries the edited text
C32_WitnessRecovery ==
    /\ lastEvent = "dispatch"
    /\ loopRetries = 1
    /\ loopChoices = 2
    /\ loopCalls = 3
    /\ lastCall.user = "r1"

\* ------------------------------------------------------------------------
\* C33: in part_002, when generate throws an error that is not a
\* ValidationError (a backend failure, a TypeError), tryGenerate prints the
\* error's message, the process goes on, and the recovery prompt opens with
\* the options it has after a ValidationError; only what is printed differs:
\* the raw text there, the message here.
\* ------------------------------------------------------------------------
C33_AfterAttempt == entry = "part_002" /\ lastEvent = "dispatch"
C33_BackendError == lastOutcome.kind \notin {"ok", "ValidationError"}

C33_InRecovery ==
    /\ pc = "failed"
    /\ exitCode = -1
    /\ offered = {"retry", "edit-prompt", "cancel"}

C33_BackendErrorRecoverable ==
    /\ (C33_AfterAttempt /\ C33_BackendError) =>
          /\ C33_InRecovery
          /\ shown.kind = "message"
          /\ shown.text = (IF lastOutcome.kind = "Error"
                           THEN lastOutcome.message ELSE "TypeError")
    /\ (C33_AfterAttempt /\ lastOutcome.kind = "ValidationError") =>
          /\ C33_InRecovery
          /\ shown.kind = "raw"
          /\ shown.text = lastOutcome.raw

\* the agent could not be spawned: its message is on the terminal and the
\* recovery prompt is open
C33_Witness ==
    /\ C33_AfterAttempt
    /\ lastOutcome = Error("spawn failed")
    /\ pc = "failed"
    /\ shown = [kind |-> "message", text |-> "spawn failed"]

\* after a backend error the operator chose Retry and a result came back
C33_WitnessRetried ==
    /\ entry = "part_002"
    /\ pc = "menu"
    /\ loopCalls = 2
    /\ loopRetries = 1
    /\ loopChoices = 1
    /\ shown.kind = "panels"
    /\ config.defaultProvider = "cloudflare"
    /\ backendCalls = 2

\* ------------------------------------------------------------------------
\* C34: Run all in part_002, from the action menu on any set of files: the
\* files handed to the cleanup prompt are the media tokens of the commands
\* that named an existing file when Run all was chosen; a file the commands
\* created is not among them; when there is none, or a command failed, no
\* cleanup prompt opens and the process ends.
\* ------------------------------------------------------------------------
C34_Candidates ==
    {f \in Files : f \in fs /\ \E i \in 1..Len(currentResult.commands) :
                                  f \in MediaTokens(currentResult.commands[i])}

C34_RunStep ==
    (pc = "menu" /\ lastEvent' = "run") =>
        /\ pc' = "cleanup" => (cleanupFiles' = C34_Candidates /\ C34_Candidates # {})
        /\ pc' # "cleanup" => (pc' = "exited" /\ cleanupFiles' = {})
        /\ C34_Candidates = {} => pc' = "exited"
        /\ \A f \in fs' \ fs : f \notin cleanupFiles'

C34_PromptStep ==
    pc = "cleanup" => (cleanupFiles' = cleanupFiles /\ fs \ fs' \subseteq cleanupFiles)

C34_CleanupOnlyPreExisting == [][C34_RunStep /\ C34_PromptStep]_vars

\* both commands ran; in.mp4 was there before and is offered, out.mp4 and
\* out.gif were created by the run and are not
C34_Witness ==
    /\ pc = "cleanup"
    /\ executed = <<"c1", "c2">>
    /\ cleanupFiles = {"in.mp4"}
    /\ fs = {"in.mp4", "out.mp4", "out.gif"}

\* the commands named no file that existed: the run succeeded and the
\* process ended without a cleanup prompt
C34_WitnessSkipped ==
    /\ pc = "exited"
    /\ lastEvent = "run"
    /\ executed = <<"c2">>
    /\ exitCode = 0
    /\ fs = {"in.mp4", "out.gif"}
    /\ cleanupFiles = {}

\* ------------------------------------------------------------------------
\* C35: how a choice in the action menu ends.  Run all: the process ends
\* with status 0 when each command of the current result exited 0 (after the
\* cleanup prompt, if one opens) and with status 1 when one did not.  Copy
\* and Cancel: status 0.  Retry, Edit prompt, Edit commands: the process
\* goes on, and what they produce brings the menu back.
\* ------------------------------------------------------------------------
C35_NewExits == SubSeq(exits', Len(exits) + 1, Len(exits'))
C35_AllZero ==
    /\ Len(C35_NewExits) = Len(currentResult.commands)
    /\ \A i \in 1..Len(C35_NewExits) : C35_NewExits[i] = 0

C35_RunStep ==
    (pc = "menu" /\ lastEvent' = "run") =>
        IF C35_AllZero
        THEN \/ pc' = "exited" /\ exitCode' = 0
             \/ pc' = "cleanup" /\ exitCode' = -1
        ELSE pc' = "exited" /\ exitCode' = 1

C35_CleanupStep ==
    (pc = "cleanup" /\ env' = env) => (pc' = "exited" /\ exitCode' = 0)

C35_CopyCancelStep ==
    (pc = "menu" /\ lastEvent' \in {"copy", "cancel"}) =>
        (pc' = "exited" /\ exitCode' = 0)

C35_LoopStep ==
    /\ (pc = "menu" /\ lastEvent' \in {"retry", "edit-prompt", "edit"}) =>
           (pc' \in {"generating", "menuEditPrompt", "menuEditCommands"} /\ exitCode' = -1)
    /\ (pc = "menuEditPrompt" /\ lastEvent' = "edit-submit") =>
           (pc' = "generating" /\ exitCode' = -1)
    /\ (pc = "generating" /\ lastOutcome'.kind = "ok" /\ dispatchCalls' # dispatchCalls) =>
           (pc' = "menu" /\ exitCode' = -1 /\ offered' # {})
    /\ (pc = "menuEditCommands" /\ lastEvent' = "edit-commands-submit") =>
           (pc' = "menu" /\ exitCode' = -1 /\ offered' # {})

C35_Running == (exitCode = -1) <=> (pc # "exited")

C35_MenuTerminalOutcomes ==
    /\ []C35_Running
    /\ [][C35_RunStep /\ C35_CleanupStep /\ C35_CopyCancelStep /\ C35_LoopStep]_vars

\* Run all where the second command failed: status 1
C35_Witness ==
    /\ entry = "part_002"
    /\ pc = "exited"
    /\ lastEvent = "run"
    /\ executed = <<"c1", "c2">>
    /\ exits = <<0, 1>>
    /\ exitCode = 1

\* Run all where both commands exited 0, through the cleanup prompt: status 0
C35_WitnessSuccess ==
    /\ entry = "part_002"
    /\ pc = "exited"
    /\ exits = <<0, 0>>
    /\ cleanupFiles = {"in.mp4"}
    /\ exitCode = 0

\* back in the menu after Edit commands, after a retry from the menu
C35_WitnessLoop ==
    /\ pc = "menu"
    /\ lastEvent = "edit-commands-submit"
    /\ dispatchCalls = 2
    /\ loopChoices = 0
    /\ exitCode = -1

\* ------------------------------------------------------------------------
\* C36: setConfig and the cache.  A call whose secret-store write fails
\* raises and leaves the cache (and the store) as they were; a call whose
\* write succeeds leaves the written configuration in the cache, and a
\* getConfig that follows it returns that configuration without reading the
\* environment variable or the store.
\* ------------------------------------------------------------------------
C36_Called(fn) ==
    /\ Len(capi') = Len(capi) + 1
    /\ capi'[Len(capi')].fn = fn
C36_LastCall == capi[Len(capi)]

C36_SetStep ==
    C36_Called("setConfig") =>
        LET call == capi'[Len(capi')]
        IN  IF call.raised
            THEN /\ ccache' = ccache
                 /\ csecret' = csecret
                 /\ cwrites' = cwrites
            ELSE /\ ccache' = call.arg
                 /\ csecret' = Json(call.arg)
                 /\ cwrites' = cwrites + 1

C36_GetAfterSetStep ==
    (/\ Len(capi) > 0
     /\ C36_LastCall.fn = "setConfig"
     /\ ~C36_LastCall.raised
     /\ C36_Called("getConfig")) =>
        /\ cret' = C36_LastCall.arg
        /\ cenvReads' = cenvReads
        /\ csecretReads' = csecretReads

C36_SetConfigCacheAtomic == [][C36_SetStep /\ C36_GetAfterSetStep]_vars

\* the store held the remote configuration and the environment variable the
\* local one; setConfig(local) succeeded and the getConfig after it returned
\* the local one with no read
C36_Witness ==
    /\ cpc = "module"
    /\ Len(capi) = 2
    /\ capi[1] = Call("setConfig", ConfigCloudflare, FALSE)
    /\ capi[2].fn = "getConfig"
    /\ cenv = Json(ConfigClaude)
    /\ cret = ConfigCloudflare
    /\ cenvReads = 0
    /\ csecretReads = 0

\* a getConfig cached the stored configuration, then a setConfig of another
\* one failed: cache and store are as before
C36_WitnessFailed ==
    /\ cpc = "module"
    /\ Len(capi) = 2
    /\ capi[1].fn = "getConfig"
    /\ capi[2] = Call("setConfig", ConfigClaude, TRUE)
    /\ ccache = ConfigCloudflare
    /\ csecret = Json(ConfigCloudflare)
    /\ cwrites = 0

\* ------------------------------------------------------------------------
\* C37: deleteConfig never raises and leaves the cache not yet loaded
\* (undefined, not null), whether the store's entry was deleted or the
\* delete failed; the getConfig that follows reads the environment variable
\* again, and the store unless the variable holds a configuration, and
\* returns what it finds there, not what was cached before.
\* ------------------------------------------------------------------------
C37_Called(fn) ==
    /\ Len(capi') = Len(capi) + 1
    /\ capi'[Len(capi')].fn = fn

C37_DeleteStep ==
    C37_Called("deleteConfig") =>
        /\ ~capi'[Len(capi')].raised
        /\ ccache' = Undefined
        /\ ccache' # ConfigNull
        /\ csecret' \in {csecret, Unset}

C37_Found ==
    IF cenv.k = "json" THEN {cenv.v}
    ELSE IF csecret.k = "json" THEN {csecret.v, ConfigNull}
    ELSE {ConfigNull}

C37_GetAfterDeleteStep ==
    (/\ Len(capi) > 0
     /\ capi[Len(capi)].fn = "deleteConfig"
     /\ C37_Called("getConfig")) =>
        /\ cenvReads' = cenvReads + 1
        /\ cenv.k # "json" => csecretReads' = csecretReads + 1
        /\ cret' \in C37_Found
        /\ ccache' = cret'

C37_DeleteResetsToNotLoaded == [][C37_DeleteStep /\ C37_GetAfterDeleteStep]_vars

\* setConfig(remote) succeeded, the delete of the store's entry failed, and
\* the getConfig after deleteConfig read the store again and found it
C37_Witness ==
    /\ cpc = "module"
    /\ Len(capi) = 3
    /\ capi[1] = Call("setConfig", ConfigCloudflare, FALSE)
    /\ capi[2].fn = "deleteConfig"
    /\ capi[3].fn = "getConfig"
    /\ csecret = Json(ConfigCloudflare)
    /\ cenv = Unset
    /\ csecretReads = 1
    /\ cret = ConfigCloudflare

\* a cached configuration, deleteConfig with the entry deleted, and the
\* getConfig after it found nothing
C37_WitnessDeleted ==
    /\ cpc = "module"
    /\ Len(capi) = 3
    /\ capi[1].fn = "getConfig"
    /\ capi[2].fn = "deleteConfig"
    /\ capi[3].fn = "getConfig"
    /\ cenvReads = 2
    /\ csecretReads = 2
    /\ csecret = Unset
    /\ cret = ConfigNull
    /\ cwrites = 0

\* ------------------------------------------------------------------------
\* C38: runConversion of part_002 with a snapshot in which neither tool is
\* installed ends the process with status 1 right after the tool summary:
\* generate was never called and no select or text prompt was opened; with
\* one tool installed, or both, the conversion goes on to the generation.
\* ------------------------------------------------------------------------
C38_Detected == entry = "part_002" /\ ctx # Undefined
C38_Neither == ~ctx.ffmpeg.installed /\ ~ctx.magick.installed

C38_NoToolsNoGeneration ==
    /\ (C38_Detected /\ C38_Neither) =>
          /\ pc = "exited"
          /\ exitCode = 1
          /\ lastEvent = "detect"
          /\ shown = [kind |-> "error", message |-> "No media tools found"]
          /\ dispatchCalls = 0
          /\ backendCalls = 0
          /\ offered = {}
          /\ loopChoices = 0
          /\ currentResult = NoResult
    /\ (C38_Detected /\ ~C38_Neither /\ lastEvent = "detect") =>
          /\ pc = "generating"
          /\ exitCode = -1
          /\ loopRequest = InitialRequest

\* no tool on the machine: the process ended before any generation
C38_Witness ==
    /\ C38_Detected
    /\ C38_Neither
    /\ pc = "exited"
    /\ exitCode = 1
    /\ dispatchCalls = 0

\* the image tool alone is installed: the conversion reached a generation
C38_WitnessOneTool ==
    /\ C38_Detected
    /\ ~ctx.ffmpeg.installed
    /\ ctx.magick.installed
    /\ dispatchCalls = 1
    /\ pc = "menu"

\* ------------------------------------------------------------------------
\* C39: a successful remote response whose body carries no reply text (no
\* choices, an empty choices array, no message, no content, a null content)
\* goes to validateResponse as the empty text: the outcome is a
\* ValidationError whose raw text is empty, neither a TypeError nor a result;
\* it is the outcome of a body whose content is the empty string.
\* ------------------------------------------------------------------------
C39_NoReplyText ==
    \/ vbody.choices.t # "array"
    \/ Len(vbody.choices.v) = 0
    \/ vbody.choices.v[1].message.t # "message"
    \/ vbody.choices.v[1].message.content.t # "string"

C39_TextlessReplyIsValidationFailure ==
    (vstage = "dispatched" /\ C39_NoReplyText) =>
        /\ vremote.kind = "ValidationError"
        /\ vremote.raw = <<>>
        /\ vremote.message = "Invalid JSON response from AI"
        /\ vremote = remoteReply(remoteBody(<<>>))

\* a body with a choice whose message has no content
C39_Witness ==
    /\ vstage = "dispatched"
    /\ vbody = Body(JArr(<<Choice(Message(Undefined))>>))
    /\ vremote = ValidationError("Invalid JSON response from AI", <<>>)

\* a body without choices
C39_WitnessNoChoices ==
    /\ vstage = "dispatched"
    /\ vbody = Body(Undefined)
    /\ vremote.kind = "ValidationError"

\* ------------------------------------------------------------------------
\* C40: in both revisions, whenever the action menu is open the panels last
\* rendered are those of the current result, explanation and commands; what
\* Run all spawned is a leading part of that result's commands, and what
\* Copy handed to the clipboard is those commands, also after a retry, a
\* prompt edit or a command edit replaced or changed an earlier result.
\* ------------------------------------------------------------------------
C40_PanelsShowCurrent ==
    /\ shown.kind = "panels"
    /\ shown.commands = currentResult.commands
    /\ shown.explanation = currentResult.explanation

C40_IsPrefix(s, t) == Len(s) <= Len(t) /\ \A i \in 1..Len(s) : s[i] = t[i]

C40_ShownIsWhatRuns ==
    /\ pc \in {"menu", "cleanup"} => C40_PanelsShowCurrent
    /\ executed # <<>> =>
          /\ C40_PanelsShowCurrent
          /\ C40_IsPrefix(executed, shown.commands)
    /\ lastEvent = "copy" =>
          /\ C40_PanelsShowCurrent
          /\ copied = shown.commands

\* the first result was edited, a retry replaced it, and Run all spawned the
\* commands of the retry's result, which the panels show
C40_Witness ==
    /\ entry = "part_002"
    /\ editCount = 1
    /\ dispatchCalls = 2
    /\ lastOutcome.kind = "ok"
    /\ executed = <<"c1", "c2">>
    /\ shown.commands = <<"c1", "c2">>
    /\ pc \in {"cleanup", "exited"}

\* Copy after a command edit, in the older revision: the edited commands
C40_WitnessCopy ==
    /\ entry = "index_ts"
    /\ lastEvent = "copy"
    /\ editCount = 1
    /\ copied = <<"c3">>
    /\ lastOutcome.commands = <<"c1", "c2">>
    /\ shown.commands = <<"c3">>

====
